---- MODULE Spec2Model ----
(***************************************************************************)
(* The communication engine of victron-server (src/index.js): the command  *)
(* queue (CommandMessageQ), the message model (Message, Command, Response) *)
(* and the protocol engine (ReceiverTransmitter).                          *)
(*                                                                         *)
(* Hex strings are sequences of hex digits, each digit its value 0..15,    *)
(* so '7ED8D00' is <<7,14,13,8,13,0,0>>.  JavaScript indices are 0-based; *)
(* the operators below keep the JavaScript index values and add 1 where a  *)
(* TLA+ sequence is read.                                                  *)
(***************************************************************************)
EXTENDS Integers, Sequences, FiniteSets, TLC

(***************************************************************************)
(* Bounds of the model.                                                    *)
(***************************************************************************)
\* number of facade calls (Command objects constructed) in one behaviour
MaxCmds == 3
\* how far below zero a retry counter is followed
MaxOverrun == 1
\* largest number of command responses behind one Checksum byte
MaxFrags == 2

(***************************************************************************)
(* Program constants.                                                      *)
(***************************************************************************)
pingCommand == 1
versionCommand == 3
productIdCommand == 4
restartCommand == 6
getCommand == 7
setCommand == 8
pingResponse == 5
doneResponse == 1
unknownResponse == 3
cmdDefaultPriority == 0
cmdDefaultMaxRetries == 3
\* message states
isOK == 0
isUnknownID == 1
isNotSupported == 2
isParameterError == 4

(***************************************************************************)
(* Pure functions on hex strings.                                          *)
(***************************************************************************)
\* JavaScript's remainder: the result has the sign of the dividend
JSRem(a, b) == IF a >= 0 THEN a % b ELSE 0 - ((0 - a) % b)

\* String.substring(from, to) with 0-based from, exclusive to, both clamped
Substring(str, from, to) ==
    LET t == IF to > Len(str) THEN Len(str) ELSE to
    IN  IF from >= t THEN <<>> ELSE SubSeq(str, from + 1, t)

RECURSIVE PadZero(_, _)
PadZero(hexStr, n) ==
    IF Len(hexStr) < n THEN PadZero(<<0>> \o hexStr, n) ELSE hexStr

endianSwap(hexStr, lengthInBytes) ==
    LET p  == PadZero(hexStr, 2 * lengthInBytes)
        s1 == IF Len(p) >= 4
              THEN Substring(p, 2, 4) \o Substring(p, 0, 2) ELSE p
        s2 == IF Len(s1) >= 8
              THEN Substring(s1, 6, 8) \o Substring(s1, 4, 6) ELSE s1
    IN  s2

\* the reduce of append_checksum: even indices weigh 16, odd indices 1
RECURSIVE NibbleSum(_, _)
NibbleSum(command, index) ==
    IF index >= Len(command) THEN 0
    ELSE (IF index % 2 = 0 THEN command[index + 1] * 16
                           ELSE command[index + 1])
         + NibbleSum(command, index + 1)

\* variant: the leading '0' is not put in front of the command
append_checksumUnpadded(cmd) ==
    LET r        == JSRem(85 - NibbleSum(cmd, 0), 256)
        checksum == IF r < 0 THEN r + 256 ELSE r
    IN  cmd \o <<checksum \div 16, checksum % 16>>

\* variant: a negative remainder is not brought into 0..255
append_checksumUnwrapped(cmd) ==
    LET command  == <<0>> \o cmd
        checksum == JSRem(85 - NibbleSum(command, 0), 256)
    IN  cmd \o <<checksum \div 16, checksum % 16>>

append_checksum(cmd) ==
    LET command  == <<0>> \o cmd
        r        == JSRem(85 - NibbleSum(command, 0), 256)
        checksum == IF r < 0 THEN r + 256 ELSE r
    IN  cmd \o <<checksum \div 16, checksum % 16>>

(***************************************************************************)
(* Message, Response, Command.                                             *)
(***************************************************************************)
\* charAt(0); the empty string has no first character (-1 here)
parseCommand(cmdStr) == IF Len(cmdStr) = 0 THEN 0 - 1 ELSE cmdStr[1]

parseIdentifier(cmdStr) ==
    LET c == parseCommand(cmdStr)
    IN  IF c # getCommand /\ c # setCommand
        THEN Substring(cmdStr, 0, 1)
        ELSE Substring(cmdStr, 0, 5)

getChecksum(cmd) == Substring(cmd, Len(cmd) - 2, Len(cmd))

isValid(cmd) ==
    IF Len(cmd) < 3 THEN FALSE
    ELSE getChecksum(append_checksum(Substring(cmd, 0, Len(cmd) - 2)))
            = getChecksum(cmd)

\* address: the hex digits behind '0x' ('' for commands without a register)
createMessage(cmd, address, value) ==
    LET hasAddress == Len(address) > 0
        eAddress   == IF hasAddress THEN endianSwap(address, 2) ELSE <<>>
        flag       == IF hasAddress THEN <<0, 0>> ELSE <<>>
    IN  append_checksum(<<cmd>> \o eAddress \o flag \o value)

Min(a, b) == IF a < b THEN a ELSE b
Max(a, b) == IF a > b THEN a ELSE b

setPriority(p) ==
    Max(0, Min(1, IF p # 0 THEN p ELSE cmdDefaultPriority))

setMaxRetries(mr) ==
    Max(0, IF mr # 0 THEN mr ELSE cmdDefaultMaxRetries)

\* new Command(cmd, address, value, priority, maxRetries); uid stands for
\* the identity of the JavaScript object
Command(uid, cmd, address, value, priority, maxRetries) ==
    [uid        |-> uid,
     cmdStr     |-> createMessage(cmd, address, value),
     priority   |-> setPriority(priority),
     maxRetries |-> setMaxRetries(maxRetries)]

getId(message) == parseIdentifier(message.cmdStr)

getResponse(command) ==
    LET c      == parseCommand(command.cmdStr)
        cmdStr == command.cmdStr
        r      == IF c = pingCommand THEN pingResponse
                  ELSE IF c = versionCommand \/ c = productIdCommand
                       THEN doneResponse
                  ELSE c
        len    == IF c = getCommand THEN Len(cmdStr) - 2
                  ELSE IF c = setCommand THEN Len(cmdStr)
                  ELSE 1
    IN  <<r>> \o Substring(cmdStr, 1, len)

(***************************************************************************)
(* CommandMessageQ: the queue is a sequence of Command records.            *)
(***************************************************************************)
\* findIndex: the first 0-based index whose id is responseId, or -1
RECURSIVE findIndex(_, _, _)
findIndex(q, responseId, from) ==
    IF from >= Len(q) THEN 0 - 1
    ELSE IF getId(q[from + 1]) = responseId THEN from
    ELSE findIndex(q, responseId, from + 1)

\* del(indexNo): splice(indexNo, 1)
del(q, indexNo) ==
    IF indexNo >= 0 /\ indexNo < Len(q)
    THEN SubSeq(q, 1, indexNo) \o SubSeq(q, indexNo + 2, Len(q))
    ELSE q

\* find(responseId): a missing id runs into the assignment to the const
\* cmdQIndex, which throws a TypeError
find(q, responseId) ==
    LET cmdQIndex == findIndex(q, responseId, 0)
    IN  IF cmdQIndex < 0 \/ cmdQIndex >= Len(q)
        THEN [threw |-> TRUE, index |-> Len(q)]
        ELSE [threw |-> FALSE, index |-> cmdQIndex]

\* delete(id): the queue afterwards and the value returned, or the
\* exception of find (nothing is returned then, retval -1 here)
delete(q, id) ==
    LET f == find(q, id)
    IN  IF f.threw THEN [threw |-> TRUE, q |-> q, retval |-> 0 - 1]
        ELSE IF f.index >= Len(q)
        THEN [threw |-> FALSE, q |-> q, retval |-> isUnknownID]
        ELSE [threw |-> FALSE, q |-> del(q, f.index), retval |-> isOK]

\* while (--i > 0 && cmdMessageQ[i].getPriority() < priority);
RECURSIVE scanBack(_, _, _)
scanBack(q, i, priority) ==
    LET j == i - 1
    IN  IF j > 0 /\ q[j + 1].priority < priority
        THEN scanBack(q, j, priority) ELSE j

\* variant: index 0 is not spared, a priority-1 command goes in front of
\* the queue
indexForPriorityFromFront(q, priority) ==
    IF priority = 1 THEN 0 ELSE scanBack(q, Len(q), priority) + 1

\* variant: a priority-1 command always goes right behind index 0
indexForPriorityBehindHead(q, priority) ==
    IF priority = 1 THEN Min(1, Len(q)) ELSE Len(q)

indexForPriority(q, priority) == scanBack(q, Len(q), priority) + 1

insertPriority(q, message, indexOfInsertion) ==
    SubSeq(q, 1, indexOfInsertion) \o <<message>>
        \o SubSeq(q, indexOfInsertion + 1, Len(q))

\* variant: compression reaches the command at position 0 ('l > 0')
Q_push_backTouchingHead(q, cmd, compression) ==
    LET l == indexForPriority(q, cmd.priority)
    IN  IF compression /\ l > 0 /\ getId(q[l]) = getId(cmd)
        THEN [q EXCEPT ![l] = cmd]
        ELSE IF l = 0 \/ q[l].cmdStr # cmd.cmdStr
             THEN insertPriority(q, cmd, l)
             ELSE q

\* variant: the compression branch is never taken
Q_push_backUncompressed(q, cmd, compression) ==
    LET l == indexForPriority(q, cmd.priority)
    IN  IF l = 0 \/ q[l].cmdStr # cmd.cmdStr
        THEN insertPriority(q, cmd, l)
        ELSE q

\* variant: a repeated message is inserted like any other
Q_push_backRepeating(q, cmd, compression) ==
    LET l == indexForPriority(q, cmd.priority)
    IN  IF compression /\ l > 1 /\ getId(q[l]) = getId(cmd)
        THEN [q EXCEPT ![l] = cmd]
        ELSE insertPriority(q, cmd, l)

Q_push_back(q, cmd, compression) ==
    LET l == indexForPriority(q, cmd.priority)
    IN  IF compression /\ l > 1 /\ getId(q[l]) = getId(cmd)
        THEN [q EXCEPT ![l] = cmd]
        ELSE IF l = 0 \/ q[l].cmdStr # cmd.cmdStr
             THEN insertPriority(q, cmd, l)
             ELSE q

(***************************************************************************)
(* Values of the device cache.  A JavaScript value is null, a number (kept *)
(* exactly, as n/d) or a string (its characters).                          *)
(***************************************************************************)
JSNull == [t |-> "null", n |-> 0, d |-> 1, s |-> <<>>]
JSNaN == [t |-> "NaN", n |-> 0, d |-> 1, s |-> <<>>]
JSNumber(n) == [t |-> "number", n |-> n, d |-> 1, s |-> <<>>]
JSString(s) == [t |-> "string", n |-> 0, d |-> 1, s |-> s]

DecimalDigits == <<"0", "1", "2", "3", "4", "5", "6", "7", "8", "9">>
HexDigits == DecimalDigits \o <<"A", "B", "C", "D", "E", "F">>

IsDigit(c) == \E i \in 1..Len(DecimalDigits) : DecimalDigits[i] = c
DigitOf(c) == (CHOOSE i \in 1..Len(DecimalDigits) : DecimalDigits[i] = c) - 1

\* the characters of a hex string
RECURSIVE hexChars(_)
hexChars(hexStr) ==
    IF hexStr = <<>> THEN <<>>
    ELSE <<HexDigits[Head(hexStr) + 1]>> \o hexChars(Tail(hexStr))

\* the leading decimal digits of str from position i on: how many, and
\* their value behind acc
RECURSIVE digitsFrom(_, _, _, _)
digitsFrom(str, i, count, acc) ==
    IF i > Len(str) \/ ~IsDigit(str[i]) THEN [count |-> count, n |-> acc]
    ELSE digitsFrom(str, i + 1, count + 1, Len(DecimalDigits) * acc + DigitOf(str[i]))

\* the leading hex digits (upper case) of str from position i on
RECURSIVE hexDigitsFrom(_, _, _, _)
hexDigitsFrom(str, i, count, acc) ==
    IF i > Len(str) \/ ~\E k \in DOMAIN HexDigits : HexDigits[k] = str[i]
    THEN [count |-> count, n |-> acc]
    ELSE hexDigitsFrom(str, i + 1, count + 1,
             Len(HexDigits) * acc
                 + (CHOOSE k \in DOMAIN HexDigits : HexDigits[k] = str[i]) - 1)

\* parseInt(str): an optional sign, then behind a prefix 0x the leading hex
\* digits, else the leading decimal digits; NaN without any
parseInt(str) ==
    LET signed == Len(str) > 0 /\ str[1] \in {"-", "+"}
        from   == IF signed THEN 2 ELSE 1
        hex    == /\ Len(str) > from
                  /\ str[from] = "0"
                  /\ str[from + 1] \in {"x", "X"}
        r      == IF hex THEN hexDigitsFrom(str, from + 2, 0, 0)
                  ELSE digitsFrom(str, from, 0, 0)
    IN  IF r.count = 0 THEN JSNaN
        ELSE JSNumber(IF signed /\ str[1] = "-" THEN 0 - r.n ELSE r.n)

\* the number a value converts to in arithmetic and in a loose comparison
ToNumber(v) ==
    IF v.t = "null" THEN JSNumber(0)
    ELSE IF v.t = "string"
    THEN LET signed == Len(v.s) > 0 /\ v.s[1] \in {"-", "+"}
             r      == digitsFrom(v.s, IF signed THEN 2 ELSE 1, 0, 0)
         IN  IF v.s = <<>> THEN JSNumber(0)
             ELSE IF r.count = 0 \/ r.count + (IF signed THEN 1 ELSE 0) # Len(v.s)
             THEN JSNaN
             ELSE JSNumber(IF signed /\ v.s[1] = "-" THEN 0 - r.n ELSE r.n)
    ELSE v

\* !v
Falsy(v) ==
    \/ v.t \in {"null", "NaN"}
    \/ v.t = "number" /\ v.n = 0
    \/ v.t = "string" /\ v.s = <<>>

\* a != b
LooseNotEqual(a, b) ==
    IF a.t = "NaN" \/ b.t = "NaN" THEN TRUE
    ELSE IF a.t = b.t
    THEN IF a.t = "number" THEN a.n * b.d # b.n * a.d ELSE a.s # b.s
    ELSE IF a.t = "null" \/ b.t = "null" THEN TRUE
    ELSE LET x == ToNumber(a)
             y == ToNumber(b)
         IN  x.t = "NaN" \/ y.t = "NaN" \/ x.n * y.d # y.n * x.d

\* v * factor
Times(v, factor) ==
    LET x == ToNumber(v)
    IN  IF x.t = "NaN" THEN JSNaN
        ELSE [t |-> "number", n |-> x.n * factor.n, d |-> x.d * factor.d,
              s |-> <<>>]

\* Math.abs(a - b) >= delta, for numbers a and b
AbsDiffAtLeast(a, b, delta) ==
    IF a.t = "NaN" \/ b.t = "NaN" THEN FALSE
    ELSE LET diff == a.n * b.d - b.n * a.d
             abs  == IF diff < 0 THEN 0 - diff ELSE diff
         IN  abs * delta.d >= delta.n * a.d * b.d

(***************************************************************************)
(* The descriptors of the device cache (device_cache.js): the Relay, the   *)
(* state of charge, which is register 0x0FFF as well, and the firmware     *)
(* version.                                                                *)
(***************************************************************************)
\* Object.entries(bmvdata), in order
Keys == <<"Relay", "SOC", "version">>

KeySet == {Keys[i] : i \in DOMAIN Keys}

\* the words of the Relay reading
ON == <<"O", "N">>
OFF == <<"O", "F", "F">>

\* the descriptors the periodic frames update
victronMap == {"Relay", "SOC"}

\* SOC arrives in permille and is kept in percent
nativeToUnitFactor(key) ==
    IF key = "SOC" THEN [n |-> 1, d |-> 10] ELSE [n |-> 1, d |-> 1]

\* 0.2 percent for SOC
delta(key) ==
    IF key = "SOC" THEN [n |-> 1, d |-> 5] ELSE [n |-> 0, d |-> 1]

\* the descriptor of a register address
addressCache == [address \in {<<0, 15, 15, 15>>} |-> "SOC"]

RECURSIVE hexToInt(_, _)
hexToInt(hexStr, acc) ==
    IF hexStr = <<>> THEN acc
    ELSE hexToInt(Tail(hexStr), 16 * acc + Head(hexStr))

\* the converter of a numeric register
fromHexStr(hexStr) == JSNumber(hexToInt(hexStr, 0))

\* Message.parseAddress and Message.parseValue
parseAddress(cmdStr) ==
    LET c       == parseCommand(cmdStr)
        address == Substring(cmdStr, 1, 5)
    IN  IF c # getCommand /\ c # setCommand THEN <<>>
        ELSE endianSwap(address, Len(address) \div 2)

parseValue(cmdStr) ==
    LET c     == parseCommand(cmdStr)
        value == IF c # getCommand /\ c # setCommand
                 THEN Substring(cmdStr, 1, Len(cmdStr) - 2)
                 ELSE Substring(cmdStr, 7, Len(cmdStr) - 2)
    IN  endianSwap(value, Len(value) \div 2)

(***************************************************************************)
(* State of the ReceiverTransmitter and of the device cache.               *)
(***************************************************************************)
VARIABLES
    isOperational,          \* false until the first line arrived
    cmdCompression,         \* CommandMessageQ.cmdCompression (configuration)
    cmdMessageQ,            \* cmdQ.cmdMessageQ
    responseMap,            \* the pending requests, keyed by response id
    timers,                 \* armed response timers, oldest first
    sendMessageDeferTimer,  \* "null", or the handle: "pending" / "done"
    deferPending,           \* number of armed deferral timers
    bmvdata,                \* the descriptors: value and newValue of each
    on,                     \* the listeners of each descriptor, and those
                            \* of the change list (this.on)
    calls,                  \* the listener calls of the last handler
    restarts,               \* restart commands the last handler wrote
    crashed,                \* an exception left a timer callback uncaught
    nextUid,                \* Command objects constructed so far, plus one
    port,                   \* the queued command written to the port last
                            \* (uid, 0: none) and how often it was written
    probe,                  \* a hex-string function under test: its input
                            \* and what it has returned so far
    checksum,               \* this.checksum.checksum, the byte sum of the
                            \* frame so far (-1: NaN)
    packageArrivalTime,     \* Date.now() at the first field line of the
                            \* frame, 0 between frames
    now,                    \* the clock Date.now() reads
    boundary                \* history: a Checksum line has been received
                            \* as text since the port was opened

vars == <<isOperational, cmdCompression, cmdMessageQ, responseMap, timers,
          sendMessageDeferTimer, deferPending, bmvdata, on, calls, restarts,
          crashed, nextUid, port, probe, checksum, packageArrivalTime, now,
          boundary>>

\* the engine as one record, threaded through the calls of a handler;
\* microtasks are the promise reactions the handler has queued
Engine ==
    [isOperational |-> isOperational, cmdMessageQ |-> cmdMessageQ,
     responseMap |-> responseMap, timers |-> timers,
     sendMessageDeferTimer |-> sendMessageDeferTimer,
     deferPending |-> deferPending, bmvdata |-> bmvdata, on |-> on,
     calls |-> <<>>, restarts |-> 0, crashed |-> crashed,
     port |-> port, microtasks |-> <<>>, checksum |-> checksum,
     packageArrivalTime |-> packageArrivalTime, now |-> now,
     boundary |-> boundary, isDirty |-> FALSE]

\* port.write of a queued command
write(p, command) ==
    [uid |-> command.uid,
     n   |-> IF p.uid = command.uid THEN p.n + 1 ELSE 1]

Put(map, key, entry) ==
    [k \in DOMAIN map \cup {key} |-> IF k = key THEN entry ELSE map[k]]

Remove(map, key) == [k \in DOMAIN map \ {key} |-> map[k]]

\* setTimeout returns a handle no armed timer and no pending request holds
FreshTimer(s) ==
    LET used == {s.timers[i].timerId : i \in DOMAIN s.timers}
                \cup {s.responseMap[k].timerId : k \in DOMAIN s.responseMap}
    IN  CHOOSE n \in 1..(Cardinality(used) + 1) :
            n \notin used /\ \A m \in 1..(n - 1) : m \in used

clearTimeout(ts, tid) == SelectSeq(ts, LAMBDA t : t.timerId # tid)

\* variant: restart() forgets the pending requests and their timers
restartForgetting(s) ==
    [s EXCEPT !.restarts = @ + 1, !.responseMap = <<>>, !.timers = <<>>]

\* restart(): ':64F\n' goes straight to the port; no field of the engine
\* changes and the write is no write of a queued command
restart(s) == [s EXCEPT !.restarts = @ + 1]

\* the key of the pending request of a command
responseIdOf(command) ==
    Substring(getResponse(command), 0, Len(getId(command)))

\* variant: a retransmission files its request under the full expected
\* response and leaves the earlier request in the map
getExpectedResponseToFiledAnew(s, command) ==
    LET expectedResponse == getResponse(command)
        responseId == responseIdOf(command)
        tid        == FreshTimer(s)
        retry      == responseId \in DOMAIN s.responseMap
        newRetries == IF retry
                      THEN s.responseMap[responseId].doRetry - 1
                      ELSE command.maxRetries
    IN  [s EXCEPT
            !.timers = Append(@, [timerId |-> tid, uid |-> command.uid,
                                  cmdStr |-> command.cmdStr]),
            !.responseMap = Put(@, IF retry THEN expectedResponse
                                   ELSE responseId,
                                [expect   |-> expectedResponse,
                                 orgCmdId |-> getId(command),
                                 timerId  |-> tid,
                                 doRetry  |-> newRetries,
                                 resolved |-> FALSE]),
            !.port = write(@, command)]

\* variant: a retransmission keeps the retry counter of the request
getExpectedResponseToUncounted(s, command) ==
    LET expectedResponse == getResponse(command)
        responseId == responseIdOf(command)
        tid        == FreshTimer(s)
        newRetries == IF responseId \in DOMAIN s.responseMap
                      THEN s.responseMap[responseId].doRetry
                      ELSE command.maxRetries
    IN  [s EXCEPT
            !.timers = Append(@, [timerId |-> tid, uid |-> command.uid,
                                  cmdStr |-> command.cmdStr]),
            !.responseMap = Put(@, responseId,
                                [expect   |-> expectedResponse,
                                 orgCmdId |-> getId(command),
                                 timerId  |-> tid,
                                 doRetry  |-> newRetries,
                                 resolved |-> FALSE]),
            !.port = write(@, command)]

getExpectedResponseTo(s, command) ==
    LET expectedResponse == getResponse(command)
        responseId == responseIdOf(command)
        tid        == FreshTimer(s)
        newRetries == IF responseId \in DOMAIN s.responseMap
                      THEN s.responseMap[responseId].doRetry - 1
                      ELSE command.maxRetries
    IN  [s EXCEPT
            !.timers = Append(@, [timerId |-> tid, uid |-> command.uid,
                                  cmdStr |-> command.cmdStr]),
            !.responseMap = Put(@, responseId,
                                [expect   |-> expectedResponse,
                                 orgCmdId |-> getId(command),
                                 timerId  |-> tid,
                                 doRetry  |-> newRetries,
                                 resolved |-> FALSE]),
            !.port = write(@, command)]

\* variant: the queue is run whether or not the port is operational
runMessageQUnguarded(s) ==
    IF s.cmdMessageQ = <<>> THEN s
    ELSE LET s1 == IF s.sendMessageDeferTimer = "pending"
                   THEN [s EXCEPT !.sendMessageDeferTimer = "done",
                                  !.deferPending = @ - 1]
                   ELSE s
             s2 == [s1 EXCEPT !.cmdMessageQ[1].priority = setPriority(1)]
         IN  getExpectedResponseTo(s2, s2.cmdMessageQ[1])

runMessageQ(s) ==
    IF s.cmdMessageQ = <<>> THEN s
    ELSE IF s.isOperational
    THEN LET s1 == IF s.sendMessageDeferTimer = "pending"
                   THEN [s EXCEPT !.sendMessageDeferTimer = "done",
                                  !.deferPending = @ - 1]
                   ELSE s
             s2 == [s1 EXCEPT !.cmdMessageQ[1].priority = setPriority(1)]
         IN  getExpectedResponseTo(s2, s2.cmdMessageQ[1])
    ELSE [s EXCEPT
            !.deferPending = (IF s.sendMessageDeferTimer = "pending"
                              THEN @ - 1 ELSE @) + 1,
            !.sendMessageDeferTimer = "pending"]

\* variant: while the port is not operational every call arms a deferral
\* timer of its own and clears none
sendMsgArmingAnew(s, message, compression) ==
    LET isQEmpty == s.cmdMessageQ = <<>>
        s1 == [s EXCEPT !.cmdMessageQ = Q_push_back(@, message, compression)]
    IN  IF s1.isOperational
        THEN IF isQEmpty THEN runMessageQ(s1) ELSE s1
        ELSE [s1 EXCEPT !.deferPending = @ + 1,
                        !.sendMessageDeferTimer = "pending"]

sendMsg(s, message, compression) ==
    LET isQEmpty == s.cmdMessageQ = <<>>
        s1 == [s EXCEPT !.cmdMessageQ = Q_push_back(@, message, compression)]
    IN  IF isQEmpty THEN runMessageQ(s1) ELSE s1

\* command: the command the fired timer was armed for
responseTimeoutHandler(s, command) ==
    LET commandId == getId(command)
        inMap     == commandId \in DOMAIN s.responseMap
        doRetry   == s.responseMap[commandId].doRetry
        s1 == IF inMap /\ JSRem(doRetry, 5) = 0
                       /\ s.bmvdata["Relay"].value = JSString(OFF)
              THEN restart(s) ELSE s
        d  == delete(s1.cmdMessageQ, commandId)
        s2 == IF inMap /\ doRetry <= 0
              THEN [s1 EXCEPT !.responseMap = Remove(@, commandId),
                              !.cmdMessageQ = d.q,
                              !.crashed = d.threw]
              ELSE s1
    IN  IF s2.crashed \/ s2.cmdMessageQ = <<>> THEN s2
        ELSE runMessageQ([s2 EXCEPT
                            !.cmdMessageQ[1].priority = setPriority(1)])

\* parseInt of the two state characters; -1 stands for NaN
parseState(cmdStr) ==
    LET st == Substring(cmdStr, 5, 7)
    IN  IF Len(st) = 0 \/ st[1] > 9 THEN 0 - 1
        ELSE IF Len(st) = 1 \/ st[2] > 9 THEN st[1]
        ELSE 10 * st[1] + st[2]

\* every listener of the array is called with the arguments of call; what
\* one throws is caught and logged, and the next is called
RECURSIVE callListenersUntilThrow(_, _, _, _)
callListenersUntilThrow(cs, listeners, call, idx) ==
    IF idx > Len(listeners) THEN cs
    ELSE LET made == Append(cs, [call EXCEPT !.idx = idx])
         IN  IF listeners[idx].throws THEN made
             ELSE callListenersUntilThrow(made, listeners, call, idx + 1)

RECURSIVE callListeners(_, _, _, _)
callListeners(cs, listeners, call, idx) ==
    IF idx > Len(listeners) THEN cs
    ELSE callListeners(Append(cs, [call EXCEPT !.idx = idx]),
                       listeners, call, idx + 1)

\* what a called listener does to the cache: one with a field stages puts
\* a value into the newValue of a descriptor, and sets bmvdata.isDirty if
\* its field dirty says so; the others touch nothing
stagedBy(s, listener) ==
    IF "stages" \in DOMAIN listener
    THEN [s EXCEPT !.bmvdata[listener.stages.key].newValue =
                       listener.stages.value,
                   !.isDirty = @ \/ listener.dirty]
    ELSE s

\* the effects of the listeners of an array, in the order of their calls
RECURSIVE runListeners(_, _, _)
runListeners(s, listeners, idx) ==
    IF idx > Len(listeners) THEN s
    ELSE runListeners(stagedBy(s, listeners[idx]), listeners, idx + 1)

SIValues(key, obj) ==
    [value    |-> Times(obj.value, nativeToUnitFactor(key)),
     newValue |-> Times(obj.newValue, nativeToUnitFactor(key))]

\* change: <<changeObj>>, or <<>> for a changeObj of null
runOnFunction(s, key) ==
    LET obj       == s.bmvdata[key]
        isNumber  == obj.newValue.t = "number"
        changeObj == IF isNumber THEN SIValues(key, obj)
                     ELSE [value |-> obj.value, newValue |-> obj.newValue]
    IN  IF obj.newValue # JSNull /\ LooseNotEqual(obj.value, obj.newValue)
        THEN IF \/ ~isNumber
                \/ AbsDiffAtLeast(changeObj.value, changeObj.newValue,
                                  delta(key))
             THEN [s |-> runListeners(
                             [s EXCEPT !.calls =
                                callListeners(@, s.on[key],
                                    [key |-> key, idx |-> 0,
                                     newValue |-> changeObj.newValue,
                                     value |-> changeObj.value,
                                     map |-> <<>>,
                                     time |-> s.packageArrivalTime], 1)],
                             s.on[key], 1),
                   change |-> <<changeObj>>]
             ELSE [s |-> s, change |-> <<>>]
        ELSE [s |-> s, change |-> <<>>]

\* variant: the commit leaves the staged value in place
updateCacheKeepingStaged(s, key) ==
    [s EXCEPT !.bmvdata[key].value =
        IF s.bmvdata[key].newValue # JSNull THEN s.bmvdata[key].newValue
        ELSE @]

updateCache(s, key) ==
    [s EXCEPT !.bmvdata[key] =
        [value    |-> IF @.newValue # JSNull THEN @.newValue ELSE @.value,
         newValue |-> JSNull]]

\* one pass over Object.entries(bmvdata)
RECURSIVE forEntries(_, _, _)
forEntries(s, changedObjects, i) ==
    IF i > Len(Keys) THEN [s |-> s, changedObjects |-> changedObjects]
    ELSE LET key == Keys[i]
             commit(r) ==
                 forEntries(updateCache(r.s, key),
                            IF r.change # <<>>
                            THEN Put(changedObjects, key, r.change[1])
                            ELSE changedObjects,
                            i + 1)
         IN  commit(runOnFunction(s, key))

\* variant: the change list goes out whether or not it has an entry
updateValuesAndValueListenersAlways(s) ==
    LET notify(r) ==
            [r.s EXCEPT !.calls =
                callListeners(@, r.s.on["ChangeList"],
                    [key |-> "ChangeList", idx |-> 0, newValue |-> JSNull,
                     value |-> JSNull, map |-> r.changedObjects,
                     time |-> r.s.packageArrivalTime], 1)]
    IN  notify(forEntries(s, <<>>, 1))

\* while (bmvdata.isDirty): the flag is cleared, a pass is made, and
\* another follows if a listener has set the flag during the pass
RECURSIVE passes(_, _)
passes(s, changedObjects) ==
    LET again(r) == IF r.s.isDirty THEN passes(r.s, r.changedObjects) ELSE r
    IN  again(forEntries([s EXCEPT !.isDirty = FALSE], changedObjects, 1))

\* variant: one pass, whatever the listeners have set
updateValuesAndValueListenersOnePass(s) ==
    LET notify(r) ==
            IF DOMAIN r.changedObjects # {}
            THEN runListeners(
                     [r.s EXCEPT !.calls =
                        callListeners(@, r.s.on["ChangeList"],
                            [key |-> "ChangeList", idx |-> 0,
                             newValue |-> JSNull, value |-> JSNull,
                             map |-> r.changedObjects,
                             time |-> r.s.packageArrivalTime], 1)],
                     r.s.on["ChangeList"], 1)
            ELSE r.s
    IN  notify(forEntries([s EXCEPT !.isDirty = FALSE], <<>>, 1))

updateValuesAndValueListeners(s) ==
    LET notify(r) ==
            IF DOMAIN r.changedObjects # {}
            THEN runListeners(
                     [r.s EXCEPT !.calls =
                        callListeners(@, r.s.on["ChangeList"],
                            [key |-> "ChangeList", idx |-> 0,
                             newValue |-> JSNull, value |-> JSNull,
                             map |-> r.changedObjects,
                             time |-> r.s.packageArrivalTime], 1)],
                     r.s.on["ChangeList"], 1)
            ELSE r.s
    IN  notify(passes(s, <<>>))

\* variant: the staged values of a damaged frame are accepted
discardValuesAccepting(s) == updateValuesAndValueListeners(s)

\* variant: a damaged frame leaves its staged values where they are
discardValuesKeeping(s) == s

discardValues(s) ==
    [s EXCEPT !.bmvdata =
        [key \in DOMAIN @ |->
            IF key \in victronMap THEN [@[key] EXCEPT !.newValue = JSNull]
            ELSE @[key]]]

\* responseHandler without the final delete of the pending request
\* (line 1416): the entry stays in the map after its command has left the queue.
responseHandlerKeepingEntry(s, response) ==
    LET responseId == parseIdentifier(response)
    IN  IF responseId \notin DOMAIN s.responseMap THEN s
        ELSE
        LET c     == parseCommand(response)
            isAck == c = pingResponse \/ c = doneResponse
            commandId == IF isAck THEN s.responseMap[responseId].orgCmdId
                         ELSE responseId
            d  == delete(s.cmdMessageQ, commandId)
            value   == parseValue(response)
            address == parseAddress(response)
        IN  IF d.threw THEN s
            ELSE
            LET s1 == [s EXCEPT !.cmdMessageQ = d.q]
                s2 == IF isAck
                      THEN IF commandId = <<productIdCommand>>
                           THEN s1
                           ELSE updateCache(runOnFunction(
                                    [s1 EXCEPT !.bmvdata["version"].newValue =
                                        JSString(hexChars(
                                            Substring(value, 1, Len(value))))],
                                    "version").s, "version")
                      ELSE IF parseState(response) = 0
                              /\ address \in DOMAIN addressCache
                      THEN updateValuesAndValueListeners(
                               [s1 EXCEPT
                                  !.bmvdata[addressCache[address]].newValue =
                                      fromHexStr(value)])
                      ELSE s1
            IN  s2

\* the promise reaction of a resolved request; an exception in it rejects
\* the promise and is logged by the catch of runMessageQ
\* (no productId request is among the calls of this model, so the branch
\* for its acknowledgement writes no descriptor here)
responseHandler(s, response) ==
    LET responseId == parseIdentifier(response)
    IN  IF responseId \notin DOMAIN s.responseMap THEN s
        ELSE
        LET c     == parseCommand(response)
            isAck == c = pingResponse \/ c = doneResponse
            commandId == IF isAck THEN s.responseMap[responseId].orgCmdId
                         ELSE responseId
            d  == delete(s.cmdMessageQ, commandId)
            value   == parseValue(response)
            address == parseAddress(response)
        IN  IF d.threw THEN s
            ELSE
            LET s1 == [s EXCEPT !.cmdMessageQ = d.q]
                s2 == IF isAck
                      THEN IF commandId = <<productIdCommand>>
                           THEN s1
                           ELSE updateCache(runOnFunction(
                                    [s1 EXCEPT !.bmvdata["version"].newValue =
                                        JSString(hexChars(
                                            Substring(value, 1, Len(value))))],
                                    "version").s, "version")
                      ELSE IF parseState(response) = 0
                              /\ address \in DOMAIN addressCache
                      THEN updateValuesAndValueListeners(
                               [s1 EXCEPT
                                  !.bmvdata[addressCache[address]].newValue =
                                      fromHexStr(value)])
                      ELSE s1
            IN  [s2 EXCEPT !.responseMap = Remove(@, responseId)]

\* resolve(response) of the request's promise: its reaction runs after the
\* current handler; a promise settles once
resolve(s, id, response) ==
    IF s.responseMap[id].resolved THEN s
    ELSE [s EXCEPT !.responseMap[id].resolved = TRUE,
                   !.microtasks = Append(@, response)]

\* variant: a response with a wrong checksum is routed like any other
evaluateUnverified(s, response) ==
    LET id == parseIdentifier(response)
    IN  IF id \in DOMAIN s.responseMap
        THEN LET e  == s.responseMap[id]
                 s1 == [s EXCEPT !.timers = clearTimeout(@, e.timerId)]
                 s2 == IF e.expect # Substring(response, 0, Len(e.expect))
                       THEN restart(s1)
                       ELSE resolve(s1, id, response)
             IN  runMessageQ(s2)
        ELSE s

\* bmvdata.relayState is the Relay descriptor of the device cache; the
\* comparison with 'OFF' is read as one of its value
evaluate(s, response) ==
    LET id == parseIdentifier(response)
    IN  IF ~isValid(response) THEN s
        ELSE IF id \in DOMAIN s.responseMap
        THEN LET e  == s.responseMap[id]
                 s1 == [s EXCEPT !.timers = clearTimeout(@, e.timerId)]
                 s2 == IF e.expect # Substring(response, 0, Len(e.expect))
                       THEN restart(IF s1.bmvdata["Relay"].value = JSString(OFF)
                                    THEN restart(s1) ELSE s1)
                       ELSE resolve(s1, id, response)
             IN  runMessageQ(s2)
        ELSE s

RECURSIVE evaluateAll(_, _, _)
evaluateAll(s, frags, cmdIndex) ==
    IF cmdIndex > Len(frags) THEN s
    ELSE evaluateAll(evaluate(s, frags[cmdIndex]), frags, cmdIndex + 1)

RECURSIVE runMicrotasks(_)
runMicrotasks(s) ==
    IF s.microtasks = <<>> THEN s
    ELSE runMicrotasks(responseHandler(
             [s EXCEPT !.microtasks = Tail(@)], Head(s.microtasks)))

\* length of res[1]: the checksum byte, then ':' + response + '\n' each
RECURSIVE rawLength(_)
rawLength(frags) ==
    IF frags = <<>> THEN 1
    ELSE 2 + Len(Head(frags)) + rawLength(Tail(frags))

\* variant: the arrival time of a frame is kept behind its Checksum line
parseSerialInputKeepingTime(s, line) ==
    IF ~s.isOperational THEN [s EXCEPT !.isOperational = TRUE]
    ELSE IF line.key = "Checksum"
    THEN LET responses(s1) ==
                 IF rawLength(line.frags) <= 3 THEN s1
                 ELSE evaluateAll(s1, line.frags, 1)
         IN  responses(IF line.ok THEN updateValuesAndValueListeners(s)
                       ELSE discardValues(s))
    ELSE LET s1 == IF s.packageArrivalTime = 0
                   THEN [s EXCEPT !.packageArrivalTime = s.now] ELSE s
         IN  IF line.key \in victronMap
             THEN LET newValue == parseInt(line.value)
                  IN  [s1 EXCEPT !.bmvdata[line.key].newValue =
                         IF Falsy(newValue) THEN JSString(line.value)
                         ELSE newValue]
             ELSE s1

\* line: [key, value, ok, frags]; ok tells whether the byte behind
\* 'Checksum\t' brings the frame's byte sum to 0 mod 256, frags are the
\* command responses that follow that byte
parseSerialInput(s, line) ==
    IF ~s.isOperational THEN [s EXCEPT !.isOperational = TRUE]
    ELSE IF line.key = "Checksum"
    THEN LET responses(s1) ==
                 IF rawLength(line.frags) <= 3 THEN s1
                 ELSE evaluateAll(s1, line.frags, 1)
         IN  responses([(IF line.ok THEN updateValuesAndValueListeners(s)
                         ELSE discardValues(s))
                            EXCEPT !.packageArrivalTime = 0])
    ELSE LET s1 == IF s.packageArrivalTime = 0
                   THEN [s EXCEPT !.packageArrivalTime = s.now] ELSE s
         IN  IF line.key \in victronMap
             THEN LET newValue == parseInt(line.value)
                  IN  [s1 EXCEPT !.bmvdata[line.key].newValue =
                         IF Falsy(newValue) THEN JSString(line.value)
                         ELSE newValue]
             ELSE s1

(***************************************************************************)
(* Inputs: the facade calls and the lines of the serial link.             *)
(***************************************************************************)
\* register 0x0FFF (state of charge)
Address == <<0, 15, 15, 15>>

\* ping(), get(address), set(address, value)
Calls ==
    {[cmd |-> pingCommand, address |-> <<>>, value |-> <<>>],
     [cmd |-> getCommand, address |-> Address, value |-> <<>>],
     [cmd |-> setCommand, address |-> Address, value |-> <<0, 0>>],
     [cmd |-> setCommand, address |-> Address, value |-> <<0, 1>>]}

Priorities == {0, 1}
\* maxRetries of the facade calls; force (999999 retries) is not set
RetriesArgs == {3}

\* command responses of the device: the answer to a ping, the answer to
\* the get with state 00 and with state 01, and an answer to the get whose
\* checksum digits are damaged
Responses ==
    {append_checksum(<<pingResponse, 0, 4, 0, 1>>),
     append_checksum(<<getCommand>> \o endianSwap(Address, 2) \o <<0, 0, 0, 1>>),
     append_checksum(<<getCommand>> \o endianSwap(Address, 2) \o <<0, 1>>),
     <<getCommand>> \o endianSwap(Address, 2) \o <<0, 0, 0, 1, 0, 0>>}

RECURSIVE SeqsUpTo(_, _)
SeqsUpTo(S, n) ==
    IF n = 0 THEN {<<>>}
    ELSE LET shorter == SeqsUpTo(S, n - 1)
         IN  shorter \cup {Append(f, r) : f \in shorter, r \in S}

\* The lines of this model are the Checksum lines: ok tells whether the
\* checksum byte closes a valid frame, frags are the command responses behind
\* it.  No field line is among them, so nothing is staged when one arrives
\* and the commit and the discard of the staged values leave the same
\* state; a frame is taken as intact iff no response follows its checksum
\* byte.
Lines ==
    {[key |-> "Checksum", value |-> <<>>, ok |-> frags = <<>>,
      frags |-> frags] : frags \in SeqsUpTo(Responses, MaxFrags)}

(***************************************************************************)
(* The events.  Each is one run of a handler to completion, the promise    *)
(* reactions it queued included.                                           *)
(***************************************************************************)
\* no retry counter is followed below -MaxOverrun
Bounded(s) ==
    \A k \in DOMAIN s.responseMap : s.responseMap[k].doRetry >= 0 - MaxOverrun

\* the engine after a handler
Done(s) ==
    \E after \in {s} :
        /\ Bounded(after)
        /\ isOperational' = after.isOperational
        /\ cmdMessageQ' = after.cmdMessageQ
        /\ responseMap' = after.responseMap
        /\ timers' = after.timers
        /\ sendMessageDeferTimer' = after.sendMessageDeferTimer
        /\ deferPending' = after.deferPending
        /\ bmvdata' = after.bmvdata
        /\ on' = after.on
        /\ calls' = after.calls
        /\ restarts' = after.restarts
        /\ crashed' = after.crashed
        /\ port' = after.port
        /\ checksum' = after.checksum
        /\ packageArrivalTime' = after.packageArrivalTime
        /\ boundary' = after.boundary
        /\ UNCHANGED <<cmdCompression, probe, now>>

Init ==
    /\ isOperational = FALSE
    /\ cmdCompression \in BOOLEAN
    /\ cmdMessageQ = <<>>
    /\ responseMap = <<>>
    /\ timers = <<>>
    /\ sendMessageDeferTimer = "null"
    /\ deferPending = 0
    /\ bmvdata = [key \in KeySet |-> [value |-> JSNull, newValue |-> JSNull]]
    /\ on = [key \in KeySet \cup {"ChangeList"} |-> <<>>]
    /\ calls = <<>>
    /\ restarts = 0
    /\ crashed = FALSE
    /\ nextUid = 1
    /\ port = [uid |-> 0, n |-> 0]
    /\ probe = [op |-> "none"]
    /\ checksum = 0
    /\ packageArrivalTime = 0
    /\ now = 1
    /\ boundary = FALSE

\* the Command object the next facade call constructs
NewCommand(call, priority, maxRetries) ==
    Command(nextUid, call.cmd, call.address, call.value, priority, maxRetries)

\* VictronEnergyDevice.get / set / ping: new Command, then rxtx.sendMsg
SendMsgOf(call, priority, maxRetries) ==
    /\ ~crashed
    /\ nextUid <= MaxCmds
    /\ Done(sendMsg(Engine, NewCommand(call, priority, maxRetries),
                    cmdCompression))
    /\ nextUid' = nextUid + 1

SendMsg ==
    \E call \in Calls, priority \in Priorities, maxRetries \in RetriesArgs :
        SendMsgOf(call, priority, maxRetries)

\* the 'data' event of the delimiter parser
ReceiveLineOf(line) ==
    /\ ~crashed
    /\ Done(runMicrotasks(parseSerialInput(Engine, line)))
    /\ UNCHANGED nextUid

ReceiveLine == \E line \in Lines : ReceiveLineOf(line)

\* a line of a device that answers no command
ReceiveSilentLine ==
    \E line \in {l \in Lines : l.frags = <<>>} : ReceiveLineOf(line)

\* the oldest armed response timer fires (all run cmdResponseTimeoutMS)
ResponseTimeout ==
    /\ ~crashed
    /\ timers # <<>>
    /\ Done(responseTimeoutHandler([Engine EXCEPT !.timers = Tail(@)],
                                   Head(timers)))
    /\ UNCHANGED nextUid

\* the deferral timer fires
DeferTimeout ==
    /\ ~crashed
    /\ deferPending > 0
    /\ Done(runMessageQ([Engine EXCEPT !.deferPending = @ - 1,
                                       !.sendMessageDeferTimer = "done"]))
    /\ UNCHANGED nextUid

Next == SendMsg \/ ReceiveLine \/ ResponseTimeout \/ DeferTimeout

Spec == Init /\ [][Next]_vars

\* the engine with a device that never answers a command
NextSilent == SendMsg \/ ReceiveSilentLine \/ ResponseTimeout \/ DeferTimeout

SilentSpec == Init /\ [][NextSilent]_vars

(***************************************************************************)
(* The device cache on its own: the periodic frames of the device and the  *)
(* listeners of the application, no command.                               *)
(***************************************************************************)
\* listeners registered at most
MaxListeners == 3

\* the field lines of a frame: the relay state, the state of charge
FieldLines ==
    {[key |-> "Relay", value |-> v, ok |-> FALSE, frags |-> <<>>] :
        v \in {ON, OFF}}
    \cup {[key |-> "SOC", value |-> <<v>>, ok |-> FALSE, frags |-> <<>>] :
            v \in {"0", "1", "3", "4"}}

\* the Checksum line of a frame, no response behind its checksum byte
ChecksumLine(ok) ==
    [key |-> "Checksum", value |-> <<>>, ok |-> ok, frags |-> <<>>]

ReceiveFieldLine == \E line \in FieldLines : ReceiveLineOf(line)

ReceiveChecksumLine == \E ok \in BOOLEAN : ReceiveLineOf(ChecksumLine(ok))

\* the map a change-list listener gets at its registration
baselineMap ==
    [key \in KeySet |->
        [value    |-> bmvdata[key].value,
         newValue |-> IF bmvdata[key].newValue = JSNull
                      THEN bmvdata[key].value ELSE bmvdata[key].newValue]]

\* VictronEnergyDevice.registerListener(property, listener): the listener
\* is appended and called at once with the current values
RegisterListenerOf(property, listener) ==
    /\ ~crashed
    /\ Len(on["ChangeList"]) + Len(on["Relay"]) + Len(on["SOC"]) < MaxListeners
    /\ Done(stagedBy([Engine EXCEPT
                !.on[property] = Append(@, listener),
                !.calls =
                    IF property = "ChangeList"
                    THEN <<[key |-> "ChangeList", idx |-> Len(on[property]) + 1,
                            newValue |-> JSNull, value |-> JSNull,
                            map |-> baselineMap, time |-> now]>>
                    ELSE <<[key |-> property, idx |-> Len(on[property]) + 1,
                            newValue |-> bmvdata[property].newValue,
                            value |-> bmvdata[property].value,
                            map |-> <<>>, time |-> now]>>], listener))
    /\ UNCHANGED nextUid

RegisterListener ==
    \E property \in {"ChangeList", "Relay", "SOC"}, throws \in BOOLEAN :
        RegisterListenerOf(property, [throws |-> throws])

\* findIndex((element) => element === listener): 0-based, -1 if none
RECURSIVE listenerIndex(_, _, _)
listenerIndex(listeners, listener, from) ==
    IF from >= Len(listeners) THEN 0 - 1
    ELSE IF listeners[from + 1] = listener THEN from
    ELSE listenerIndex(listeners, listener, from + 1)

\* ReceiverTransmitter.deregisterListener(listener), on this.on
rxtxDeregisterListener(listeners, listener) ==
    LET i == listenerIndex(listeners, listener, 0)
    IN  IF i < 0 \/ i >= Len(listeners) THEN listeners
        ELSE SubSeq(listeners, 1, i) \o SubSeq(listeners, i + 2, Len(listeners))

\* VictronEnergyDevice.deregisterListener(property, listener): the listeners
\* afterwards.  For a descriptor the test behind a found index reads
\* this.on.length of the facade, which has no field on: the TypeError goes
\* to the caller and the splice is not reached
deregisterListener(listeners, property, listener) ==
    IF property = "ChangeList"
    THEN [listeners EXCEPT
            !["ChangeList"] = rxtxDeregisterListener(@, listener)]
    ELSE IF property \in KeySet
    THEN LET i == listenerIndex(listeners[property], listener, 0)
         IN  IF i < 0 THEN listeners
             ELSE listeners
    ELSE listeners

\* VictronEnergyDevice.hasListeners(property)
hasListeners(listeners, property) ==
    IF property = "ChangeList" THEN Len(listeners["ChangeList"]) > 0
    ELSE property \in KeySet /\ Len(listeners[property]) > 0

DeregisterListenerOf(property, listener) ==
    /\ ~crashed
    /\ Done([Engine EXCEPT !.on = deregisterListener(@, property, listener)])
    /\ UNCHANGED nextUid

DeregisterListener ==
    \E property \in {"ChangeList", "Relay", "SOC"}, throws \in BOOLEAN :
        DeregisterListenerOf(property, [throws |-> throws])

NextCache ==
    \/ ReceiveFieldLine
    \/ ReceiveChecksumLine
    \/ RegisterListener
    \/ DeregisterListener

CacheSpec == Init /\ [][NextCache]_vars

(***************************************************************************)
(* Commands and frames together: ping and get, the relay state in the      *)
(* frames, and Checksum lines of valid and of damaged frames with at most  *)
(* one command response behind the checksum byte.                          *)
(***************************************************************************)
FrameCalls ==
    {[cmd |-> pingCommand, address |-> <<>>, value |-> <<>>],
     [cmd |-> getCommand, address |-> Address, value |-> <<>>]}

\* the answer to the ping, the answer to the get with state 00 and value
\* 01, and the answer to the get with state 01
FrameResponses ==
    {append_checksum(<<pingResponse, 0, 4, 0, 1>>),
     append_checksum(<<getCommand>> \o endianSwap(Address, 2) \o <<0, 0, 0, 1>>),
     append_checksum(<<getCommand>> \o endianSwap(Address, 2) \o <<0, 1>>)}

FrameLines ==
    {[key |-> "Relay", value |-> v, ok |-> FALSE, frags |-> <<>>] :
        v \in {ON, OFF}}
    \cup {[key |-> "Checksum", value |-> <<>>, ok |-> ok, frags |-> frags] :
            ok \in BOOLEAN, frags \in SeqsUpTo(FrameResponses, 1)}

SendFrameMsg ==
    \E call \in FrameCalls :
        SendMsgOf(call, cmdDefaultPriority, cmdDefaultMaxRetries)

ReceiveFrameLine == \E line \in FrameLines : ReceiveLineOf(line)

NextFrame ==
    SendFrameMsg \/ ReceiveFrameLine \/ ResponseTimeout \/ DeferTimeout

FrameSpec == Init /\ [][NextFrame]_vars

(***************************************************************************)
(* The hex-string functions on their own: endianSwap applied repeatedly    *)
(* to one input, and the wire forms createMessage and restart() build.     *)
(***************************************************************************)
\* hex digits the inputs are built from
HexSample == {0, 1, 10, 15}

\* hex strings of n digits
HexStrings(n) == [1..n -> HexSample]

\* the engine's fields stay as they are
EngineIdle ==
    UNCHANGED <<isOperational, cmdCompression, cmdMessageQ, responseMap,
                timers, sendMessageDeferTimer, deferPending, bmvdata, on,
                calls, restarts, crashed, nextUid, port, checksum,
                packageArrivalTime, now, boundary>>

\* a 2-byte or a 4-byte hex string is chosen
ChooseHexString ==
    /\ probe.op = "none"
    /\ \E lengthInBytes \in {2, 4} :
         \E hexStr \in HexStrings(2 * lengthInBytes) :
            probe' = [op |-> "endianSwap", hexStr |-> hexStr,
                      lengthInBytes |-> lengthInBytes,
                      result |-> hexStr, applied |-> 0]
    /\ EngineIdle

\* endianSwap is applied to what it returned before
ApplyEndianSwap ==
    /\ probe.op = "endianSwap"
    /\ probe.applied < 2
    /\ probe' = [probe EXCEPT
                    !.result = endianSwap(@, probe.lengthInBytes),
                    !.applied = @ + 1]
    /\ EngineIdle

\* new Command(...) of the facade: ping, version, productId, get(address),
\* set(address, value) with a value of 1, 2 or 4 bytes
CreateCommand ==
    /\ probe.op = "none"
    /\ \E cmd \in {pingCommand, versionCommand, productIdCommand,
                    getCommand, setCommand} :
         \E address \in IF cmd \in {getCommand, setCommand}
                        THEN HexStrings(4) ELSE {<<>>} :
            \E value \in IF cmd = setCommand
                         THEN HexStrings(2) \cup HexStrings(4)
                                \cup {v \o v : v \in HexStrings(4)}
                         ELSE {<<>>} :
                probe' = [op |-> "command",
                          cmdStr |-> createMessage(cmd, address, value)]
    /\ EngineIdle

\* the command restart() writes
CreateRestart ==
    /\ probe.op = "none"
    /\ probe' = [op |-> "command",
                 cmdStr |-> append_checksum(<<restartCommand>>)]
    /\ EngineIdle

\* the bodies of get commands and responses with flags/state 00, among
\* them 7ED8D00
Bodies ==
    {<<getCommand>> \o eAddress \o <<0, 0>> :
        eAddress \in HexStrings(4) \cup {<<14, 13, 8, 13>>}}

\* append_checksum(cmd) on a body
AppendChecksum ==
    /\ probe.op = "none"
    /\ \E cmd \in Bodies :
         probe' = [op |-> "append_checksum", cmd |-> cmd,
                   result |-> append_checksum(cmd)]
    /\ EngineIdle

\* queues of up to two commands, as the facade calls build them
ProbeQueues ==
    {<<>>}
    \cup {<<Command(1, a.cmd, a.address, a.value, cmdDefaultPriority,
                    cmdDefaultMaxRetries)>> : a \in Calls}
    \cup {<<Command(1, a.cmd, a.address, a.value, cmdDefaultPriority,
                    cmdDefaultMaxRetries),
            Command(2, b.cmd, b.address, b.value, cmdDefaultPriority,
                    cmdDefaultMaxRetries)>> : a \in Calls, b \in Calls}

\* the identifiers of the facade calls
ProbeIds ==
    {getId(Command(1, a.cmd, a.address, a.value, cmdDefaultPriority,
                   cmdDefaultMaxRetries)) : a \in Calls}

\* cmdQ.delete(id)
DeleteFromQueue ==
    /\ probe.op = "none"
    /\ \E q \in ProbeQueues, id \in ProbeIds :
         probe' = [op |-> "delete", q |-> q, id |-> id,
                   result |-> delete(q, id)]
    /\ EngineIdle

\* values of field lines: the words of the relay state, the product id as
\* the device prints it, and decimal readings with their values
Tokens ==
    {[kind |-> "word", s |-> ON, n |-> 0],
     [kind |-> "word", s |-> OFF, n |-> 0],
     [kind |-> "hex", s |-> <<"0", "x", "2", "0", "4">>, n |-> 0],
     [kind |-> "decimal", s |-> <<"0">>, n |-> 0],
     [kind |-> "decimal", s |-> <<"1", "2">>, n |-> 12],
     [kind |-> "decimal", s |-> <<"-", "5">>, n |-> 0 - 5]}

\* parseSerialInput of the field line of key with a value, link operational
StageToken ==
    /\ probe.op = "none"
    /\ \E key \in victronMap, token \in Tokens :
         probe' = [op |-> "stage", key |-> key, token |-> token,
                   newValue |->
                       parseSerialInput(
                           [Engine EXCEPT !.isOperational = TRUE],
                           [key |-> key, value |-> token.s, ok |-> FALSE,
                            frags |-> <<>>]).bmvdata[key].newValue]
    /\ EngineIdle

NextPure ==
    \/ StageToken
    \/ DeleteFromQueue
    \/ ChooseHexString
    \/ ApplyEndianSwap
    \/ CreateCommand
    \/ CreateRestart
    \/ AppendChecksum

PureSpec == Init /\ [][NextPure]_vars

(***************************************************************************)
(* The engine with restarts: the facade's restart() between the other      *)
(* events, and a device that acknowledges a restart.                       *)
(***************************************************************************)
\* the line the device sends after a restart: 4000051
restartAck == <<productIdCommand, 0, 0, 0, 0, 5, 1>>

\* the acknowledgement, the answer to a ping and the answer to the get
RestartResponses ==
    {restartAck,
     append_checksum(<<pingResponse, 0, 4, 0, 1>>),
     append_checksum(<<getCommand>> \o endianSwap(Address, 2) \o <<0, 0, 0, 1>>)}

RestartLines ==
    {[key |-> "Checksum", value |-> <<>>, ok |-> frags = <<>>,
      frags |-> frags] : frags \in SeqsUpTo(RestartResponses, MaxFrags)}

\* the lines that carry acknowledgements only
AckLines ==
    {line \in RestartLines :
        /\ line.frags # <<>>
        /\ \A i \in DOMAIN line.frags : line.frags[i] = restartAck}

ReceiveRestartLine == \E line \in RestartLines : ReceiveLineOf(line)

\* VictronEnergyDevice.restart: rxtx.restart()
Restart ==
    /\ ~crashed
    /\ Done(restart(Engine))
    /\ UNCHANGED nextUid

NextRestart ==
    SendMsg \/ ReceiveRestartLine \/ ResponseTimeout \/ DeferTimeout \/ Restart

RestartSpec == Init /\ [][NextRestart]_vars

(***************************************************************************)
(* Listeners that stage: a listener of the state of charge or of the       *)
(* change list puts a value into another descriptor when it is called.     *)
(***************************************************************************)
\* listeners that stage
MaxStagers == 2

\* a listener that stages OFF for the relay (a descriptor before the state
\* of charge in the order of the pass) or "1" for the version (one behind
\* it), and sets bmvdata.isDirty or does not
StagingListeners ==
    {[throws |-> FALSE, stages |-> [key |-> key, value |-> value],
      dirty |-> dirty] :
        key \in {"Relay", "version"},
        value \in {JSString(OFF)},
        dirty \in BOOLEAN}

RegisterStagingListener ==
    \E property \in {"ChangeList", "SOC"}, listener \in StagingListeners :
        /\ Len(on["ChangeList"]) + Len(on["SOC"]) < MaxStagers
        /\ RegisterListenerOf(property, listener)

NextDispatch ==
    ReceiveFieldLine \/ ReceiveChecksumLine \/ RegisterStagingListener

DispatchSpec == Init /\ [][NextDispatch]_vars

(***************************************************************************)
(* The periodic frames byte by byte: the lines as text, the accumulator of *)
(* RegularUpdateChecksum over them, and the clock.                         *)
(***************************************************************************)
\* field lines of one frame that enter the accumulator
MaxFields == 2

\* readings of the clock
MaxTime == 3

\* String.charCodeAt for the characters of the lines
charCodeAt(c) ==
    CASE c = "\t" -> 9
      [] c = "-" -> 45
      [] IsDigit(c) -> 48 + DigitOf(c)
      [] c = "C" -> 67  [] c = "F" -> 70  [] c = "N" -> 78  [] c = "O" -> 79
      [] c = "R" -> 82  [] c = "S" -> 83
      [] c = "a" -> 97  [] c = "c" -> 99  [] c = "e" -> 101 [] c = "h" -> 104
      [] c = "k" -> 107 [] c = "l" -> 108 [] c = "m" -> 109 [] c = "s" -> 115
      [] c = "u" -> 117 [] c = "x" -> 120 [] c = "y" -> 121

\* the characters of a key
KeyChars(key) ==
    CASE key = "Relay" -> <<"R", "e", "l", "a", "y">>
      [] key = "SOC" -> <<"S", "O", "C">>
      [] key = "Checksum" -> <<"C", "h", "e", "c", "k", "s", "u", "m">>

RECURSIVE charCodeSum(_)
charCodeSum(chars) ==
    IF chars = <<>> THEN 0
    ELSE charCodeAt(Head(chars)) + charCodeSum(Tail(chars))

\* the text of a line: the key, a tab if it has one, the value, and for a
\* Checksum line the checksum byte (a character code) if it has one
\* RegularUpdateChecksum.update(line): the sum afterwards.  Of a Checksum
\* line key, tab and checksum byte are counted; charCodeAt behind the end of
\* the text is NaN
update(sum, text) ==
    LET head == 10 + 13 + charCodeSum(KeyChars(text.key))
    IN  IF sum < 0 THEN sum
        ELSE IF text.key = "Checksum"
        THEN IF text.tab /\ text.byte # <<>>
             THEN sum + head + charCodeAt("\t") + text.byte[1]
             ELSE 0 - 1
        ELSE sum + head + charCodeAt("\t") + charCodeSum(text.value)

\* the line parseSerialInput works on
LineOfText(text, ok) ==
    [key |-> text.key, value |-> text.value, ok |-> ok, frags |-> text.frags]

\* parseSerialInput with the accumulator: the first line is dropped
\* unread; a Checksum line is valid iff the sum with its key, tab and byte
\* is 0 modulo 256, and the accumulator is reset behind the commit or
\* discard; of a Checksum line without a tab res[1] is undefined, and
\* res[1].length in the branch of the invalid checksum throws
parseSerialText(s, text) ==
    LET cs     == update(s.checksum, text)
        valid  == cs >= 0 /\ cs % 256 = 0
        closes == s.isOperational /\ text.key = "Checksum"
        behind(parsed) ==
            IF ~s.isOperational
            THEN [parsed EXCEPT !.boundary = @ \/ text.key = "Checksum"]
            ELSE IF text.key = "Checksum"
            THEN [parsed EXCEPT !.checksum = 0, !.boundary = TRUE]
            ELSE [parsed EXCEPT !.checksum = cs]
    IN  IF closes /\ ~text.tab
        THEN [discardValues(s) EXCEPT !.checksum = cs, !.crashed = TRUE,
                                      !.boundary = TRUE]
        ELSE behind(parseSerialInput(s, LineOfText(text, closes /\ valid)))

\* the field lines: the relay state and the state of charge
FieldTexts ==
    {[key |-> "Relay", tab |-> TRUE, value |-> v, byte |-> <<>>,
      frags |-> <<>>] : v \in {ON, OFF}}
    \cup {[key |-> "SOC", tab |-> TRUE, value |-> <<v>>, byte |-> <<>>,
           frags |-> <<>>] : v \in {"1", "3"}}

\* the byte that brings the sum of the frame to 0 modulo 256
closingByte ==
    (256 - ((checksum + 10 + 13 + charCodeSum(KeyChars("Checksum"))
                 + charCodeAt("\t")) % 256)) % 256

\* the Checksum lines: without a tab, with a tab and no byte, with the byte
\* that closes the frame and with another one, and behind a byte nothing
\* or the answer to a ping
ChecksumTexts ==
    {[key |-> "Checksum", tab |-> tab, value |-> <<>>, byte |-> <<>>,
      frags |-> <<>>] : tab \in BOOLEAN}
    \cup {[key |-> "Checksum", tab |-> TRUE, value |-> <<>>, byte |-> <<b>>,
           frags |-> frags] :
             b \in {closingByte, (closingByte + 1) % 256},
             frags \in SeqsUpTo({append_checksum(<<pingResponse, 0, 4, 0, 1>>)}, 1)}

\* the 'data' event of the delimiter parser, the line as text
ReceiveTextOf(text) ==
    /\ ~crashed
    /\ Done(runMicrotasks(parseSerialText(Engine, text)))
    /\ UNCHANGED nextUid

\* a frame has at most MaxFields field lines
ReceiveFieldText ==
    \E text \in FieldTexts :
        /\ update(update(checksum, text), text)
               <= MaxFields * update(0, [text EXCEPT !.value = OFF])
        /\ ReceiveTextOf(text)

ReceiveChecksumText == \E text \in ChecksumTexts : ReceiveTextOf(text)

\* the clock advances
Tick ==
    /\ now < MaxTime
    /\ now' = now + 1
    /\ UNCHANGED <<isOperational, cmdCompression, cmdMessageQ, responseMap,
                   timers, sendMessageDeferTimer, deferPending, bmvdata, on,
                   calls, restarts, crashed, nextUid, port, probe, checksum,
                   packageArrivalTime, boundary>>

\* listeners of the relay state and of the change list
RegisterTelemetryListener ==
    \E property \in {"ChangeList", "Relay"} :
        RegisterListenerOf(property, [throws |-> FALSE])

NextTelemetry ==
    \/ ReceiveFieldText
    \/ ReceiveChecksumText
    \/ Tick
    \/ RegisterTelemetryListener

TelemetrySpec == Init /\ [][NextTelemetry]_vars

(***************************************************************************)
(* Properties.                                                             *)
(***************************************************************************)
\* the Command objects of a queue
uids(q) == {q[i].uid : i \in DOMAIN q}

\* the wire forms of a queue, in order
Wires(q) == [i \in DOMAIN q |-> q[i].cmdStr]

\* a queue without the identity of its Command objects
Contents(q) ==
    [i \in DOMAIN q |-> [cmdStr |-> q[i].cmdStr, priority |-> q[i].priority,
                         maxRetries |-> q[i].maxRetries]]

\* response is valid and is what the pending request of the command at
\* index 0 expects
Answers(response) ==
    /\ isOperational
    /\ cmdMessageQ # <<>>
    /\ isValid(response)
    /\ parseIdentifier(response) \in DOMAIN responseMap
    /\ LET e == responseMap[parseIdentifier(response)]
       IN  /\ e.orgCmdId = getId(cmdMessageQ[1])
           /\ e.expect = Substring(response, 0, Len(e.expect))

\* a line that carries the one response
LineOf(ok, response) ==
    [key |-> "Checksum", value |-> <<>>, ok |-> ok, frags |-> <<response>>]

\* the oldest armed response timer is that of the command at index 0, and
\* that command's pending request has no retry left
HeadExhausted ==
    /\ timers # <<>>
    /\ cmdMessageQ # <<>>
    /\ Head(timers).uid = cmdMessageQ[1].uid
    /\ responseIdOf(cmdMessageQ[1]) \in DOMAIN responseMap
    /\ responseMap[responseIdOf(cmdMessageQ[1])].doRetry <= 0

\* C1: with only timeouts occurring, a command enqueued with maxRetries = n
\* is written to the port exactly n + 1 times and then removed; here: no
\* queued command is ever written more than maxRetries + 1 times.
C1_WrittenAtMostRetriesPlusOne ==
    \A i \in DOMAIN cmdMessageQ :
        cmdMessageQ[i].uid = port.uid =>
            port.n <= cmdMessageQ[i].maxRetries + 1

\* C2: every write of a queued command is a write of the command at index 0
\* of the queue, and a different command is written only when the command
\* written before has left the queue.
C2_OnlyHeadWritten ==
    [][port' # port =>
        /\ \/ cmdMessageQ # <<>> /\ port'.uid = cmdMessageQ[1].uid
           \/ cmdMessageQ' # <<>> /\ port'.uid = cmdMessageQ'[1].uid
        /\ port'.uid # port.uid => port.uid \notin uids(cmdMessageQ')]_vars

\* a retransmission followed by the write of the next command: the first
\* command was dropped, the second one is the head and was written
C2_Witness ==
    /\ port.uid = 2
    /\ cmdMessageQ # <<>>
    /\ cmdMessageQ[1].uid = 2
    /\ 1 \notin uids(cmdMessageQ)
    /\ timers # <<>>

\* C3: once the valid, matching response of the inflight command has been
\* handled, the command is out of the queue, its pending request is out of
\* the map and no response timer for it is armed.
C3_RetiredBySuccess ==
    [][\A ok \in BOOLEAN, response \in Responses :
        (Answers(response) /\ ReceiveLineOf(LineOf(ok, response))) =>
            /\ cmdMessageQ[1].uid \notin uids(cmdMessageQ')
            /\ responseIdOf(cmdMessageQ[1]) \notin DOMAIN responseMap'
            /\ \A i \in DOMAIN timers' :
                   timers'[i].uid # cmdMessageQ[1].uid]_vars

\* C4: whenever the command at index 0 leaves the queue (by its response or
\* by exhausting its retries) and the queue is not empty, the new command at
\* index 0 has priority 1 and is the command written to the port.
C4_NextHeadTransmitted ==
    [][(/\ cmdMessageQ # <<>>
        /\ cmdMessageQ[1].uid \notin uids(cmdMessageQ')
        /\ cmdMessageQ' # <<>>) =>
            /\ cmdMessageQ'[1].priority = 1
            /\ port'.uid = cmdMessageQ'[1].uid]_vars

\* C5: with a device that never answers, the command at index 0 is dropped
\* once its retries are exhausted: when its response timer fires and its
\* pending request has no retry left, it leaves the queue.
C5_ExhaustedHeadDropped ==
    [][(HeadExhausted /\ ResponseTimeout) =>
        cmdMessageQ[1].uid \notin uids(cmdMessageQ')]_vars

\* C6: the priorities of the queue are non-increasing from index 0 on.
C6_PrioritiesDescending ==
    \A i, j \in DOMAIN cmdMessageQ :
        i < j => cmdMessageQ[i].priority >= cmdMessageQ[j].priority

\* the command at index 0 is the command written to the port last
HeadInflight == cmdMessageQ # <<>> /\ port.uid = cmdMessageQ[1].uid

\* C7: Q_push_back on a non-empty queue leaves the element at index 0 as it
\* is, whatever the priority of the new command and whether compression is
\* on or off.
C7_HeadUntouched ==
    [][\A call \in Calls, priority \in Priorities, maxRetries \in RetriesArgs :
        (cmdMessageQ # <<>> /\ SendMsgOf(call, priority, maxRetries)) =>
            /\ cmdMessageQ' # <<>>
            /\ cmdMessageQ'[1] = cmdMessageQ[1]]_vars

\* compression is on and the first command is still at index 0 behind two
\* further pushes, the last of them a priority-1 command with the id of
\* the first
C7_Witness ==
    /\ cmdCompression
    /\ nextUid = 4
    /\ Len(cmdMessageQ) >= 2
    /\ cmdMessageQ[1].uid = 1
    /\ cmdMessageQ[2].uid = 3
    /\ cmdMessageQ[2].priority = 1
    /\ getId(cmdMessageQ[2]) = getId(cmdMessageQ[1])

\* C8 as stated: with compression on and exactly one command inflight at
\* index 0, every one of k >= 1 consecutive pushes of priority-0 commands
\* of one id leaves the queue at length 2 with the pushed command as tail
\* (the first push finds the inflight command alone, each later push finds
\* it followed by the command pushed before).
C8_BurstLeavesLastOnly ==
    [][\A call \in Calls, maxRetries \in RetriesArgs :
        LET cmd == NewCommand(call, 0, maxRetries)
        IN  (/\ cmdCompression
             /\ HeadInflight
             /\ \/ Len(cmdMessageQ) = 1
                \/ /\ Len(cmdMessageQ) = 2
                   /\ cmdMessageQ[2].priority = 0
                   /\ getId(cmdMessageQ[2]) = getId(cmd)
             /\ SendMsgOf(call, 0, maxRetries)) =>
                /\ Len(cmdMessageQ') = 2
                /\ cmdMessageQ'[2] = cmd]_vars

\* C8 amended: the same, for a pushed command that does not find the
\* inflight command alone with its own wire form (that push is dropped and
\* the queue stays at length 1).
C8_BurstLeavesLastUnlessRepeated ==
    [][\A call \in Calls, maxRetries \in RetriesArgs :
        LET cmd == NewCommand(call, 0, maxRetries)
        IN  (/\ cmdCompression
             /\ HeadInflight
             /\ \/ /\ Len(cmdMessageQ) = 1
                   /\ cmdMessageQ[1].cmdStr # cmd.cmdStr
                \/ /\ Len(cmdMessageQ) = 2
                   /\ cmdMessageQ[2].priority = 0
                   /\ getId(cmdMessageQ[2]) = getId(cmd)
             /\ SendMsgOf(call, 0, maxRetries)) =>
                /\ Len(cmdMessageQ') = 2
                /\ cmdMessageQ'[2] = cmd]_vars

\* a burst of two behind the inflight first command: the second command was
\* replaced by the third, which differs from it on the wire
C8_Witness ==
    /\ cmdCompression
    /\ port = [uid |-> 1, n |-> 1]
    /\ Len(cmdMessageQ) = 2
    /\ cmdMessageQ[1].uid = 1
    /\ cmdMessageQ[2].uid = 3
    /\ cmdMessageQ[2].priority = 0
    /\ cmdMessageQ[2].cmdStr = createMessage(setCommand, Address, <<0, 1>>)

C10_OnePendingRequestOfHead ==
    cmdMessageQ # <<>> =>
        Cardinality({k \in DOMAIN responseMap :
                        responseMap[k].orgCmdId = getId(cmdMessageQ[1])}) <= 1

\* the command at index 0 was retransmitted: written twice, one retry used,
\* one pending request
C10_Witness ==
    /\ HeadInflight
    /\ port.n = 2
    /\ responseIdOf(cmdMessageQ[1]) \in DOMAIN responseMap
    /\ responseMap[responseIdOf(cmdMessageQ[1])].doRetry
           = cmdMessageQ[1].maxRetries - 1
    /\ parseCommand(cmdMessageQ[1].cmdStr) = getCommand

\* the bytes of a hex string, two digits each, summed
RECURSIVE ByteSum(_)
ByteSum(hexStr) ==
    IF Len(hexStr) = 0 THEN 0
    ELSE IF Len(hexStr) = 1 THEN 16 * hexStr[1]
    ELSE 16 * hexStr[1] + hexStr[2] + ByteSum(SubSeq(hexStr, 3, Len(hexStr)))

\* C19: for every command the engine constructs, the bytes of '0' followed
\* by the wire body and its two checksum digits sum to 0x55 modulo 256.
C19_ChecksumComplements ==
    probe.op = "command" => ByteSum(<<0>> \o probe.cmdStr) % 256 = 85

\* a set of a 4-byte value has been constructed: command digit, address,
\* flag, eight value digits that are not all zero, checksum
C19_Witness ==
    /\ probe.op = "command"
    /\ parseCommand(probe.cmdStr) = setCommand
    /\ Len(probe.cmdStr) = 17
    /\ Substring(probe.cmdStr, 7, 15) = <<15, 15, 10, 1, 15, 15, 10, 1>>

\* C20: endianSwap applied twice returns its input, for every 2-byte and
\* every 4-byte hex string.
C20_EndianSwapInvolution ==
    (probe.op = "endianSwap" /\ probe.applied = 2) =>
        probe.result = probe.hexStr

\* the command checksum of a response verifies
Verifies(response) == ByteSum(<<0>> \o response) % 256 = 85

\* the pending request of the command at index 0 is filed under the
\* identifier of the response, and the command is the one written last
Pending(response) ==
    /\ isOperational
    /\ HeadInflight
    /\ parseIdentifier(response) \in DOMAIN responseMap
    /\ responseMap[parseIdentifier(response)].orgCmdId = getId(cmdMessageQ[1])

\* the response timer of a pending request is armed
TimerArmed(id) ==
    \E i \in DOMAIN timers : timers[i].timerId = responseMap[id].timerId

\* C13: a response whose command checksum does not verify changes nothing:
\* the queue, the pending requests with their remaining retries and the
\* armed timers stay as they are and nothing is written to the port (no step
\* that changes one of them is the handling of a line with such a response).
C13_InvalidResponseChangesNothing ==
    [][\A ok \in BOOLEAN, response \in Responses :
        (isOperational /\ ~Verifies(response)) =>
            \/ UNCHANGED <<cmdMessageQ, responseMap, timers, port>>
            \/ ~ReceiveLineOf(LineOf(ok, response))]_vars

\* the get is inflight with its pending request and its armed timer, it has
\* been written once, and the response with the damaged checksum carries its
\* identifier: the line with that response leaves this state as it is
C13_Witness ==
    \E response \in Responses :
        /\ ~Verifies(response)
        /\ Pending(response)
        /\ TimerArmed(parseIdentifier(response))
        /\ port.n = 1
        /\ ENABLED ReceiveLineOf(LineOf(FALSE, response))

\* the state of a get/set response is one the device reports for a failed
\* command: isUnknownID, isNotSupported or isParameterError
ReportsFailure(response) ==
    /\ parseCommand(response) \in {getCommand, setCommand}
    /\ parseState(response) \in {isUnknownID, isNotSupported, isParameterError}

\* C14: a valid response to the inflight get/set command that carries a
\* device-reported state retires the command: it leaves the queue and the
\* pending requests, is not written again, and no restart is issued.
C14_FailureStateRetires ==
    [][\A ok \in BOOLEAN, response \in Responses :
        (/\ Pending(response)
         /\ Verifies(response)
         /\ ReportsFailure(response)
         /\ ReceiveLineOf(LineOf(ok, response))) =>
            /\ cmdMessageQ[1].uid \notin uids(cmdMessageQ')
            /\ parseIdentifier(response) \notin DOMAIN responseMap'
            /\ port' = port
            /\ restarts' = 0]_vars

\* the leading characters of the response differ from what the pending
\* request under its identifier expects
Refused(response) ==
    /\ Pending(response)
    /\ Verifies(response)
    /\ LET e == responseMap[parseIdentifier(response)]
       IN  e.expect # Substring(response, 0, Len(e.expect))

\* C15: a refused response leaves the queue unchanged and the command
\* inflight with its response timer still armed; it is not written to the
\* port by the handling of the response (only the timeout path writes it
\* again), so it stays within maxRetries + 1 writes.
C15_RefusedLeftToTimeout ==
    [][\A ok \in BOOLEAN, response \in Responses :
        (Refused(response) /\ ReceiveLineOf(LineOf(ok, response))) =>
            /\ cmdMessageQ' = cmdMessageQ
            /\ TimerArmed(parseIdentifier(response))'
            /\ port' = port
            /\ port'.n <= cmdMessageQ[1].maxRetries + 1]_vars

\* the listeners of the descriptor are notified when its staged value is
\* committed: a value is staged and differs from the current one and, if it
\* is a number, differs from it in SI units by delta or more
Notified(key) ==
    LET obj == bmvdata[key]
    IN  /\ obj.newValue # JSNull
        /\ LooseNotEqual(obj.value, obj.newValue)
        /\ \/ obj.newValue.t # "number"
           \/ AbsDiffAtLeast(Times(obj.newValue, nativeToUnitFactor(key)),
                             Times(obj.value, nativeToUnitFactor(key)),
                             delta(key))

\* the calls of the last handler to the idx-th listener of key
CallsTo(cs, key, idx) == {j \in DOMAIN cs : cs[j].key = key /\ cs[j].idx = idx}

\* C11 as stated: after the Checksum line of a valid frame every ChangeList
\* listener has been invoked exactly once, with a map whose key set is the
\* set of descriptors whose value changed in the frame.
C11_ChangeListCarriesEveryChange ==
    [][(isOperational /\ ReceiveLineOf(ChecksumLine(TRUE))) =>
        LET changed == {key \in KeySet :
                            bmvdata'[key].value # bmvdata[key].value}
        IN  \A idx \in 1..Len(on["ChangeList"]) :
                /\ Cardinality(CallsTo(calls', "ChangeList", idx)) = 1
                /\ \A j \in CallsTo(calls', "ChangeList", idx) :
                       DOMAIN calls'[j].map = changed]_vars

\* C11, amended: after the Checksum line of a valid frame, if the listeners
\* of at least one descriptor were notified, every ChangeList listener has
\* been invoked exactly once, with a map whose key set is the set of the
\* notified descriptors; if none was notified, no ChangeList listener has
\* been invoked.
C11_ChangeListCarriesNotifiedChanges ==
    [][(isOperational /\ ReceiveLineOf(ChecksumLine(TRUE))) =>
        LET notified == {key \in KeySet : Notified(key)}
        IN  \A idx \in 1..Len(on["ChangeList"]) :
                IF notified = {}
                THEN CallsTo(calls', "ChangeList", idx) = {}
                ELSE /\ Cardinality(CallsTo(calls', "ChangeList", idx)) = 1
                     /\ \A j \in CallsTo(calls', "ChangeList", idx) :
                            DOMAIN calls'[j].map = notified]_vars

\* two ChangeList listeners have both been called by one commit, with a map
\* of the relay and the state of charge
C11_Witness ==
    /\ Len(on["ChangeList"]) = 2
    /\ Len(calls) = 2
    /\ \A j \in DOMAIN calls :
           /\ calls[j].key = "ChangeList"
           /\ calls[j].idx = j
           /\ DOMAIN calls[j].map = {"Relay", "SOC"}

\* C17: the listeners of a descriptor with numeric readings (here the
\* state of charge, a reading of 0 included) are invoked during commit only
\* when the staged and the current value, both in SI units, differ by the
\* descriptor's delta or more (for a descriptor that has a current value).
C17_NumericListenersOnlyAtDelta ==
    [][(/\ isOperational
        /\ bmvdata["SOC"].value # JSNull
        /\ ReceiveLineOf(ChecksumLine(TRUE))
        /\ \E idx \in 1..Len(on["SOC"]) : CallsTo(calls', "SOC", idx) # {}) =>
            AbsDiffAtLeast(
                Times(bmvdata["SOC"].newValue, nativeToUnitFactor("SOC")),
                Times(bmvdata["SOC"].value, nativeToUnitFactor("SOC")),
                delta("SOC"))]_vars

\* C18: a listener that throws during the commit of a valid frame affects
\* neither the frame nor the other listeners: every listener of every
\* notified descriptor and every ChangeList listener is invoked once, every
\* staged value becomes the value, and no exception leaves the handler.
C18_ThrowingListenerContained ==
    [][(isOperational /\ ReceiveLineOf(ChecksumLine(TRUE))) =>
        /\ \A key \in KeySet :
               Notified(key) =>
                   \A idx \in 1..Len(on[key]) :
                       Cardinality(CallsTo(calls', key, idx)) = 1
        /\ (\E key \in KeySet : Notified(key)) =>
               \A idx \in 1..Len(on["ChangeList"]) :
                   Cardinality(CallsTo(calls', "ChangeList", idx)) = 1
        /\ \A key \in KeySet :
               /\ bmvdata[key].newValue # JSNull =>
                      bmvdata'[key].value = bmvdata[key].newValue
               /\ bmvdata'[key].newValue = JSNull
        /\ ~crashed']_vars

\* the first of two listeners of the state of charge throws; the commit has
\* called it, then the second, then the ChangeList listener, and nothing is
\* left staged
C18_Witness ==
    /\ Len(on["SOC"]) = 2
    /\ on["SOC"][1].throws
    /\ ~on["SOC"][2].throws
    /\ Len(on["ChangeList"]) = 1
    /\ Len(calls) = 3
    /\ calls[1].key = "SOC" /\ calls[1].idx = 1
    /\ calls[2].key = "SOC" /\ calls[2].idx = 2
    /\ calls[3].key = "ChangeList" /\ DOMAIN calls[3].map = {"SOC"}
    /\ bmvdata["SOC"].newValue = JSNull
    /\ bmvdata["SOC"].value = JSNumber(3)
    /\ ~crashed

\* C16: the engine (timeout handler and refused-response path) writes a
\* restart command only while the committed value of the Relay descriptor
\* is OFF; stated here is the particular case of the claim: no handler
\* writes a restart command while that value is ON.
C16_NoRestartWhileRelayOn ==
    [][restarts' > 0 => bmvdata'["Relay"].value # JSString(ON)]_vars

\* the lines of a frame whose byte sum is not 0 modulo 256: its field lines
\* and its Checksum line, with what follows the checksum byte
DamagedFrameLines == {line \in FrameLines : ~line.ok}

\* C12 as stated: the lines of a frame whose byte sum is nonzero, the
\* Checksum line and what follows its checksum byte included, change no
\* descriptor's value, and the Checksum line leaves no value staged.
C12_DamagedFrameMutatesNothing ==
    [][\A line \in DamagedFrameLines :
        (isOperational /\ ReceiveLineOf(line)) =>
            /\ \A key \in KeySet : bmvdata'[key].value = bmvdata[key].value
            /\ line.key = "Checksum" =>
                   \A key \in KeySet : bmvdata'[key].newValue = JSNull]_vars

\* the response is valid, is what a pending request expects, and commits
\* the value it carries to the descriptor key: the acknowledgement of a ping
\* to the version, the answer of a get/set with state 0 to the descriptor
\* of its register
Updates(response, key) ==
    /\ Verifies(response)
    /\ parseIdentifier(response) \in DOMAIN responseMap
    /\ LET e == responseMap[parseIdentifier(response)]
       IN  e.expect = Substring(response, 0, Len(e.expect))
    /\ IF parseCommand(response) \in {pingResponse, doneResponse}
       THEN key = "version"
       ELSE /\ parseState(response) = 0
            /\ parseAddress(response) \in DOMAIN addressCache
            /\ addressCache[parseAddress(response)] = key

\* C12, amended: the lines of a frame whose byte sum is nonzero stage values
\* only; its Checksum line discards them, and a descriptor's value changes
\* with that line only if a valid, expected command response behind the
\* checksum byte carries a value for that descriptor (a step is either not
\* the handling of such a line or it is as described).
C12_DamagedFrameCommitsNothingStaged ==
    [][\A line \in DamagedFrameLines :
        isOperational =>
            \/ /\ \A key \in KeySet :
                      bmvdata'[key].value # bmvdata[key].value =>
                          /\ line.key = "Checksum"
                          /\ \E i \in DOMAIN line.frags :
                                 Updates(line.frags[i], key)
               /\ line.key = "Checksum" =>
                      \A key \in KeySet : bmvdata'[key].newValue = JSNull
            \/ ~ReceiveLineOf(line)]_vars

\* the relay is ON, its reading OFF of a damaged frame has been discarded,
\* and the answer to the get behind the checksum byte of that frame has
\* given the state of charge its value
C12_Witness ==
    /\ bmvdata["Relay"] = [value |-> JSString(ON), newValue |-> JSNull]
    /\ bmvdata["SOC"] = [value |-> JSNumber(1), newValue |-> JSNull]
    /\ bmvdata["version"].value = JSNull
    /\ restarts = 0
    /\ cmdMessageQ = <<>>
    /\ nextUid = 2

\* the body 7ED8D00 has been given its checksum
S2Appended ==
    /\ probe.op = "append_checksum"
    /\ probe.cmd = <<7, 14, 13, 8, 13, 0, 0>>

\* C21 as stated: appending the checksum to the body 7ED8D00 yields the
\* digits A1, and the byte sum of the result is 0x55 modulo 256.
C21_S2ChecksumIsA1 ==
    S2Appended =>
        /\ probe.result = probe.cmd \o <<10, 1>>
        /\ ByteSum(<<0>> \o probe.result) % 256 = 85

\* C21, amended: appending the checksum to the body 7ED8D00 yields the
\* digits D4, and the byte sum of the result is 0x55 modulo 256.
C21_S2ChecksumIsD4 ==
    S2Appended =>
        /\ probe.result = probe.cmd \o <<13, 4>>
        /\ ByteSum(<<0>> \o probe.result) % 256 = 85

\* the checksum of 7ED8D00 has been computed and the result is the body
\* with two more digits
C21_Witness ==
    /\ S2Appended
    /\ Len(probe.result) = Len(probe.cmd) + 2
    /\ Substring(probe.result, 0, 7) = probe.cmd

\* the 1-based positions of the commands of q with the identifier id
Matches(q, id) == {i \in DOMAIN q : getId(q[i]) = id}

\* C22: delete(identifier) on a queue without a command of that identifier
\* returns isUnknownID, raises nothing and leaves the queue unchanged; with
\* a match it removes exactly the first matching entry and returns isOK.
C22_DeleteByIdentifier ==
    probe.op = "delete" =>
        LET m == Matches(probe.q, probe.id)
        IN  /\ ~probe.result.threw
            /\ IF m = {}
               THEN /\ probe.result.retval = isUnknownID
                    /\ probe.result.q = probe.q
               ELSE LET first == CHOOSE i \in m : \A j \in m : i <= j
                    IN  /\ probe.result.retval = isOK
                        /\ probe.result.q =
                               SubSeq(probe.q, 1, first - 1)
                               \o SubSeq(probe.q, first + 1, Len(probe.q))

\* C23: deregisterListener(property, fn) after registerListener(property,
\* fn) removes one occurrence of fn; when fn was the only listener of the
\* property, hasListeners(property) is false afterwards (and no later change
\* invokes fn), for a named descriptor as for ChangeList.
C23_DeregisterRemovesListener ==
    [][\A property \in {"ChangeList", "Relay", "SOC"}, throws \in BOOLEAN :
        (/\ on[property] = <<[throws |-> throws]>>
         /\ DeregisterListenerOf(property, [throws |-> throws])) =>
            ~hasListeners(on', property)]_vars

\* the 1-based position behind which a command of the priority belongs in
\* the queue q: behind the last priority-1 entry that is not the head (the
\* head if there is none) for priority 1, behind the tail for priority 0
Behind(q, priority) ==
    LET ones == {i \in 2..Len(q) : q[i].priority = 1}
    IN  IF priority = 0 THEN Len(q)
        ELSE IF ones = {} THEN 1
        ELSE CHOOSE i \in ones : \A j \in ones : j <= i

\* C24: on a non-empty queue, a command that is neither compressed into
\* the tail nor dropped as a repetition (the queue grows by one) is inserted
\* immediately behind the last priority-1 entry, or at index 1 if no entry
\* behind the head has priority 1, when its priority is 1, and is appended
\* at the tail when its priority is 0.
C24_InsertedBehindItsClass ==
    [][\A call \in Calls, priority \in Priorities, maxRetries \in RetriesArgs :
        \/ cmdMessageQ = <<>>
        \/ Len(cmdMessageQ') # Len(cmdMessageQ) + 1
        \/ ~SendMsgOf(call, priority, maxRetries)
        \/ LET k == Behind(cmdMessageQ, setPriority(priority))
           IN  cmdMessageQ' =
                   SubSeq(cmdMessageQ, 1, k)
                   \o <<NewCommand(call, priority, maxRetries)>>
                   \o SubSeq(cmdMessageQ, k + 1, Len(cmdMessageQ))]_vars

\* three commands of different identifiers: the second and the third came
\* with priority 1, and the third stands behind the second
C24_Witness ==
    /\ Len(cmdMessageQ) = 3
    /\ [i \in 1..3 |-> cmdMessageQ[i].uid] = <<1, 2, 3>>
    /\ cmdMessageQ[2].priority = 1
    /\ cmdMessageQ[3].priority = 1
    /\ getId(cmdMessageQ[2]) # getId(cmdMessageQ[3])

\* C25: with compression enabled, a new command with the identifier of the
\* tail of the queue, the tail not being index 0, replaces the tail in place
\* and the queue does not grow, whatever the priority of the new command.
C25_TailReplacedInPlace ==
    [][\A call \in Calls, priority \in Priorities, maxRetries \in RetriesArgs :
        \/ ~cmdCompression
        \/ Len(cmdMessageQ) < 2
        \/ getId(cmdMessageQ[Len(cmdMessageQ)])
               # getId(NewCommand(call, priority, maxRetries))
        \/ ~SendMsgOf(call, priority, maxRetries)
        \/ cmdMessageQ' =
               [cmdMessageQ EXCEPT ![Len(cmdMessageQ)] =
                   NewCommand(call, priority, maxRetries)]]_vars

\* the oldest armed response timer is that of the command at index 0, and
\* that command's pending request has retries left
HeadRetriable ==
    /\ timers # <<>>
    /\ cmdMessageQ # <<>>
    /\ Head(timers).uid = cmdMessageQ[1].uid
    /\ responseIdOf(cmdMessageQ[1]) \in DOMAIN responseMap
    /\ responseMap[responseIdOf(cmdMessageQ[1])].doRetry > 0

\* C26: when the response timer of the command at index 0 fires and retries
\* remain, the queue keeps its contents and order, the command at index 0
\* is written to the port once more and the doRetry of its pending request
\* drops by exactly one.
C26_TimeoutRetransmitsHead ==
    [][\/ ~HeadRetriable
       \/ ~ResponseTimeout
       \/ /\ cmdMessageQ' = cmdMessageQ
          /\ port'.uid = cmdMessageQ[1].uid
          /\ port'.n = (IF port.uid = cmdMessageQ[1].uid THEN port.n ELSE 0) + 1
          /\ responseIdOf(cmdMessageQ[1]) \in DOMAIN responseMap'
          /\ responseMap'[responseIdOf(cmdMessageQ[1])].doRetry
                 = responseMap[responseIdOf(cmdMessageQ[1])].doRetry - 1]_vars

\* the command at index 0 is on the wire for the second time and its pending
\* request has one retry less than the command allows
C26_Witness ==
    /\ cmdMessageQ # <<>>
    /\ port = [uid |-> cmdMessageQ[1].uid, n |-> 2]
    /\ Len(timers) = 1
    /\ responseIdOf(cmdMessageQ[1]) \in DOMAIN responseMap
    /\ responseMap[responseIdOf(cmdMessageQ[1])].doRetry
           = cmdMessageQ[1].maxRetries - 1

\* C27: at most one send-deferral timer is armed at any time, however
\* sendMsg calls, deferral-timer firings and arriving lines interleave.
C27_OneDeferralTimer ==
    /\ deferPending <= 1
    /\ (deferPending = 1) = (sendMessageDeferTimer = "pending")

\* three commands were queued while the port is not operational, and one
\* deferral timer is armed
C27_Witness ==
    /\ ~isOperational
    /\ Len(cmdMessageQ) = 3
    /\ deferPending = 1

\* nothing was written to the port and no request is pending
Untransmitted ==
    /\ port.n = 0
    /\ responseMap = <<>>
    /\ timers = <<>>

\* C28: while the port is not operational no queued command is written to
\* the port and no pending request is created; a command queued before the
\* port became operational is transmitted when a deferral timer fires after
\* the first line has been received.
C28_Backpressure ==
    [][/\ ~isOperational => Untransmitted /\ Untransmitted'
       /\ \/ ~isOperational
          \/ cmdMessageQ = <<>>
          \/ ~DeferTimeout
          \/ /\ Untransmitted
             /\ port' = [uid |-> cmdMessageQ[1].uid, n |-> 1]
             /\ responseIdOf(cmdMessageQ[1]) \in DOMAIN responseMap'
             /\ Wires(cmdMessageQ') = Wires(cmdMessageQ)]_vars

\* two commands were queued, a line was received, the deferral timer has
\* fired and the command at index 0 is on the wire for the first time
C28_Witness ==
    /\ isOperational
    /\ sendMessageDeferTimer = "done"
    /\ Len(cmdMessageQ) = 2
    /\ port = [uid |-> cmdMessageQ[1].uid, n |-> 1]
    /\ DOMAIN responseMap = {responseIdOf(cmdMessageQ[1])}
    /\ Len(timers) = 1

\* C29: restart() writes the restart command ':64F' straight to the port and
\* leaves the queue, the pending requests and the armed timers as they are;
\* the acknowledgement of a restart matches no pending request and changes
\* neither the queue nor the pending requests.
C29_RestartBypassesQueue ==
    [][/\ \/ ~Restart
          \/ /\ restarts' = 1
             /\ append_checksum(<<restartCommand>>) = <<restartCommand, 4, 15>>
             /\ UNCHANGED <<cmdMessageQ, responseMap, timers, port,
                            sendMessageDeferTimer, deferPending>>
       /\ parseIdentifier(restartAck) \notin DOMAIN responseMap
       /\ \A line \in AckLines :
              \/ /\ isValid(restartAck)
                 /\ UNCHANGED <<cmdMessageQ, responseMap, timers, port>>
              \/ ~ReceiveLineOf(line)]_vars

\* restart() has run while a command was on the wire, its request pending
\* and its timer armed, and another command waited behind it
C29_Witness ==
    /\ restarts = 1
    /\ Len(cmdMessageQ) = 2
    /\ port = [uid |-> cmdMessageQ[1].uid, n |-> 1]
    /\ DOMAIN responseMap = {responseIdOf(cmdMessageQ[1])}
    /\ Len(timers) = 1

\* the engine at the end of parseSerialInput for the line, when the promise
\* reactions of the requests it resolved are about to run
Routed(line) == parseSerialInput(Engine, line)

\* C30: the command responses behind the checksum byte of a Checksum line
\* are routed after the commit or discard of that frame, so when the
\* reaction to a response commits, no descriptor of the frames holds a
\* staged value, and the commit leaves those descriptors as the frame's
\* commit or discard left them.
C30_ResponseCommitsNoUnvalidatedValue ==
    \A line \in FrameLines :
        \/ ~isOperational
        \/ Routed(line).microtasks = <<>>
        \/ /\ line.key = "Checksum"
           /\ \A key \in victronMap :
                  Routed(line).bmvdata[key].newValue = JSNull
           /\ runMicrotasks(Routed(line)).bmvdata["Relay"]
                  = (IF line.ok THEN updateValuesAndValueListeners(Engine)
                     ELSE discardValues(Engine)).bmvdata["Relay"]

\* the relay is OFF by a frame that was committed, the state of charge has
\* the value of the answer to the get, and nothing is staged
C30_Witness ==
    /\ bmvdata["Relay"] = [value |-> JSString(OFF), newValue |-> JSNull]
    /\ bmvdata["SOC"] = [value |-> JSNumber(1), newValue |-> JSNull]
    /\ responseMap = <<>>

\* C33: after any line whose key is Checksum has been processed (with or
\* without a checksum byte, with or without a response behind it, the frame
\* valid or not) the accumulator of the frame checksum is zero.
C33_AccumulatorResetByChecksumLine ==
    [][\A text \in ChecksumTexts :
        \/ ~isOperational
        \/ ~ReceiveTextOf(text)
        \/ checksum' = 0]_vars

\* C31: every call of a descriptor's listener and of a change-list listener
\* that a frame causes gets the same time, the clock reading taken at the
\* first field line of that frame; the Checksum line clears it, so the next
\* frame takes a reading of its own.
C31_FrameCallsShareArrivalTime ==
    [][/\ \A text \in FieldTexts :
            \/ ~isOperational
            \/ packageArrivalTime' =
                   (IF checksum = 0 THEN now ELSE packageArrivalTime)
            \/ ~ReceiveTextOf(text)
       /\ \A text \in ChecksumTexts :
            \/ ~isOperational
            \/ ~text.tab
            \/ /\ packageArrivalTime' = 0
               /\ \A j \in DOMAIN calls' :
                      /\ calls'[j].time = packageArrivalTime
                      /\ calls'[j].time # 0
            \/ ~ReceiveTextOf(text)]_vars

\* the frame that began at clock reading 2 has been committed at reading 3:
\* the listener of the relay state and the listener of the change list were
\* called with the time 2
C31_Witness ==
    /\ now = 3
    /\ packageArrivalTime = 0
    /\ Len(calls) = 2
    /\ calls[1].key = "Relay" /\ calls[1].time = 2
    /\ calls[2].key = "ChangeList" /\ calls[2].time = 2

\* C32: a field line changes only the newValue of the descriptor of its key
\* and no descriptor's value; a value is written only by the commit of a
\* valid frame, which gives it the staged newValue and clears the newValue.
C32_StagedThenCommitted ==
    [][/\ \A line \in FieldLines :
            \/ ~isOperational
            \/ /\ bmvdata'[line.key].newValue # JSNull
               /\ bmvdata' = [bmvdata EXCEPT ![line.key].newValue =
                                 bmvdata'[line.key].newValue]
            \/ ~ReceiveLineOf(line)
       /\ \A key \in KeySet :
            \/ bmvdata'[key].value = bmvdata[key].value
            \/ /\ bmvdata[key].newValue # JSNull
               /\ bmvdata'[key] = [value |-> bmvdata[key].newValue,
                                   newValue |-> JSNull]
               /\ ReceiveLineOf(ChecksumLine(TRUE))]_vars

\* the state of charge has the committed value 1 and the staged value 3,
\* the relay is ON with nothing staged
C32_Witness ==
    /\ bmvdata["SOC"] = [value |-> JSNumber(1), newValue |-> JSNumber(3)]
    /\ bmvdata["Relay"] = [value |-> JSString(ON), newValue |-> JSNull]

\* C34: the lines received before the first frame boundary (the first
\* Checksum line since the port was opened) change no descriptor's value and
\* cause no listener call, whatever their bytes are.
C34_PartialFrameDiscarded ==
    [][\/ boundary
       \/ on' # on
       \/ now' # now
       \/ /\ \A key \in KeySet : bmvdata'[key].value = bmvdata[key].value
          /\ calls' = <<>>]_vars

\* C35: staging the value of a field line keeps ON, OFF and a hex-prefixed
\* token such as 0x204 as strings, and stores every decimal token, 0 and
\* negative values included, as the integer it denotes.
C35_TokensStagedByKind ==
    probe.op = "stage" =>
        IF probe.token.kind = "decimal"
        THEN probe.newValue = JSNumber(probe.token.n)
        ELSE probe.newValue = JSString(probe.token.s)

\* the listeners of the descriptors that stage set bmvdata.isDirty, and no
\* listener of the change list stages
StagersSetDirty ==
    /\ \A key \in KeySet : \A i \in DOMAIN on[key] :
           "stages" \in DOMAIN on[key][i] => on[key][i].dirty
    /\ \A i \in DOMAIN on["ChangeList"] :
           "stages" \notin DOMAIN on["ChangeList"][i]

\* C36 as stated: the commit of a valid frame makes passes until one commits
\* nothing, so on return no descriptor holds a staged newValue, whatever
\* the listeners have staged during the dispatch.
C36_NothingStagedOnReturn ==
    [][\/ ~isOperational
       \/ \A key \in KeySet : bmvdata'[key].newValue = JSNull
       \/ ~ReceiveLineOf(ChecksumLine(TRUE))]_vars

\* C36: the commit of a valid frame makes another pass whenever a listener
\* has set bmvdata.isDirty during a pass; if every listener of a descriptor
\* that stages sets the flag and no listener of the change list stages, no
\* descriptor holds a staged newValue on return.
C36_NothingStagedBehindDirtyFlag ==
    [][\/ ~isOperational
       \/ ~StagersSetDirty
       \/ \A key \in KeySet : bmvdata'[key].newValue = JSNull
       \/ ~ReceiveLineOf(ChecksumLine(TRUE))]_vars

\* the listener of the state of charge was called, it staged OFF for the
\* relay and set the flag, and the next pass has committed OFF
C36_Witness ==
    /\ StagersSetDirty
    /\ Len(on["SOC"]) = 1
    /\ "stages" \in DOMAIN on["SOC"][1]
    /\ on["SOC"][1].stages.key = "Relay"
    /\ Len(calls) = 1
    /\ calls[1].key = "SOC"
    /\ bmvdata["Relay"] = [value |-> JSString(OFF), newValue |-> JSNull]
    /\ bmvdata["SOC"].newValue = JSNull

\* C37: a command whose valid, matching response arrives before its first
\* timeout is written to the port exactly once; the handling of the response
\* does not write the command it retires again.
C37_AnsweredCommandWrittenOnce ==
    [][\A ok \in BOOLEAN, response \in Responses :
        \/ ~Answers(response)
        \/ port # [uid |-> cmdMessageQ[1].uid, n |-> 1]
        \/ port' = port
        \/ port'.uid # cmdMessageQ[1].uid
        \/ ~ReceiveLineOf(LineOf(ok, response))]_vars

\* C38: at most one response timer is armed and it belongs to the command at
\* the head of the queue, so no timer can fire for a retired command.
C38_OneTimerForHead ==
    /\ Len(timers) <= 1
    /\ \A i \in DOMAIN timers :
        /\ cmdMessageQ # <<>>
        /\ timers[i].uid = cmdMessageQ[1].uid

\* C39: once an event and its promise reactions have been handled, the map
\* of pending requests holds at most one entry, and that entry is the one of
\* the command at the head of a non-empty queue.
C39_OnePendingForHead ==
    ~crashed =>
        /\ Cardinality(DOMAIN responseMap) <= 1
        /\ \A k \in DOMAIN responseMap :
            /\ cmdMessageQ # <<>>
            /\ responseMap[k].orgCmdId = getId(cmdMessageQ[1])

\* C39 is reached behind a retransmission: one pending request, for the head
\* of a queue of two, while the timer of a retired command is still armed.
C39_Witness ==
    /\ ~crashed
    /\ Cardinality(DOMAIN responseMap) = 1
    /\ Len(cmdMessageQ) >= 2
    /\ port = [uid |-> cmdMessageQ[1].uid, n |-> 2]
    /\ \E i \in DOMAIN timers : timers[i].uid \notin uids(cmdMessageQ)

\* C40: the retry counter of every pending request stays between 0 and the
\* maxRetries of its command, whatever timeouts, responses and
\* retransmissions occur; it is never negative.
C40_RetryCounterInRange ==
    \A k \in DOMAIN responseMap :
        /\ responseMap[k].doRetry >= 0
        /\ \A i \in DOMAIN cmdMessageQ :
            getId(cmdMessageQ[i]) = responseMap[k].orgCmdId =>
                responseMap[k].doRetry <= cmdMessageQ[i].maxRetries

====
